---- MODULE Spec2Model ----
(***************************************************************************)
(* EchoDoc: the job-oriented document-to-artifact pipeline.                *)
(*                                                                         *)
(* The model follows app/services/upload.py (UploadService), the parser    *)
(* and index builder it drives, the object-store adapter, the activity     *)
(* log, and the chat / evaluation services that read the aggregated        *)
(* artifacts.                                                              *)
(*                                                                         *)
(* Representation.  A string is a sequence of one-character strings, a     *)
(* path is a sequence of path components, Python's None is the value None  *)
(* below.  Rows of a table are kept in insertion order; a row's id is its  *)
(* position.                                                               *)
(***************************************************************************)
EXTENDS Integers, Sequences, FiniteSets, TLC

\* ----------------------------------------------------------------- bounds
\* Largest batch handed to one upload_files invocation.
MaxFiles == 2
\* Failures of external calls (object store, providers, database) injected
\* in one behaviour.
MaxFaults == 1
\* The default chunk_size of chunk_text (1000 words in the source), scaled
\* down so that a file of a few words spans several chunks.
chunk_size == 2
\* Longest text, and largest chunk_size, of a direct chunk_text call.
MaxTextLen == 5
MaxChunkSize == 3
\* How often the database clock advances, and how many entries of one job
\* with one timestamp a listing of the activity log is computed for.
MaxTicks == 2
MaxTies == 4
\* How many fine-tune requests the activity log records.
MaxRequests == 2
MaxPollEntries == 2
MaxPuts == 2

\* ------------------------------------------------------ program constants
\* k = min(5, len(chunks)) of every retrieval.
TopK == 5
\* len(evaluation_questions) of evaluate_model.
NumQuestions == 7

\* ------------------------------------------------------------ basic values
None == <<"None">>

\* Python truthiness, `not v`, of a string or None, and of a list.
Falsy(v) == v = None \/ v = <<>>
Empty(list) == Len(list) = 0

Min(a, b) == IF a < b THEN a ELSE b

RECURSIVE Flatten(_)
\* Concatenation of a sequence of sequences.
Flatten(ss) == IF ss = <<>> THEN <<>> ELSE Head(ss) \o Flatten(Tail(ss))

RECURSIVE JoinWith(_, _)
\* sep.join(parts) for strings as character sequences.
JoinWith(sep, parts) ==
  IF parts = <<>> THEN <<>>
  ELSE IF Len(parts) = 1 THEN Head(parts)
  ELSE Head(parts) \o sep \o JoinWith(sep, Tail(parts))

\* --------------------------------------------------------- document parser
\* A variant of the whitespace test that knows the blank only.
IsBlank(ch) == ch = " "

\* The characters str.split() and str.strip() take for whitespace.
IsSpace(ch) == ch \in {" ", "\n", "\t"}

RECURSIVE SplitAcc(_, _, _)
\* str.split(): the maximal runs of non-whitespace characters, in order.
SplitAcc(text, cur, acc) ==
  IF text = <<>> THEN (IF cur = <<>> THEN acc ELSE Append(acc, cur))
  ELSE IF IsSpace(Head(text))
       THEN SplitAcc(Tail(text), <<>>, IF cur = <<>> THEN acc ELSE Append(acc, cur))
       ELSE SplitAcc(Tail(text), Append(cur, Head(text)), acc)

Split(text) == SplitAcc(text, <<>>, <<>>)

RECURSIVE ChunkWords(_, _)
\* [" ".join(words[i:i + n]) for i in range(0, len(words), n)]
ChunkWords(words, n) ==
  IF words = <<>> THEN <<>>
  ELSE LET k == Min(n, Len(words))
       IN  <<JoinWith(<<" ">>, SubSeq(words, 1, k))>>
             \o ChunkWords(SubSeq(words, k + 1, Len(words)), n)

\* A variant of the chunker that takes one word more into every chunk.
chunk_text_wide(text, n) == ChunkWords(Split(text), n + 1)

\* DocumentParser.chunk_text
chunk_text(text, n) == ChunkWords(Split(text), n)

\* The media types of the parser's dispatch table (one entry stands for the
\* six: every entry here is read as text).
SupportedTypes == {"text/plain"}

\* ------------------------------------------------------------------ inputs
\* The uploaded files: a name, a declared media type and the bytes.
Files ==
  { [filename |-> "empty.txt", content_type |-> "text/plain", content |-> <<>>],
    [filename |-> "blank.txt", content_type |-> "text/plain", content |-> <<" ", "\n">>],
    [filename |-> "one.txt",   content_type |-> "text/plain", content |-> <<"a">>],
    [filename |-> "long.txt",  content_type |-> "text/plain",
       content |-> <<"b", " ", "c", " ", " ", "d", "\n", "e", " ", "f">>],
    [filename |-> "long.txt",  content_type |-> "text/plain", content |-> <<"g">>],
    [filename |-> "pic.png",   content_type |-> "image/png",  content |-> <<"x">>] }

JobNames == {"demo"}


\* ------------------------------------------------------------------- state
VARIABLES
  remote,      \* settings.AZURE_STORAGE_CONNECTION_STRING is set
  jobs,        \* table jobs
  documents,   \* table documents
  models,      \* table finetuned_models
  logs,        \* table job_activity_log
  blobs,       \* the remote blob service: locator -> content
  files,       \* the local filesystem: path -> content
  dirs,        \* the job folders that exist under LOCAL_STORAGE_FOLDER
  calls,       \* the upload_files invocations, with their local variables
  faults,      \* failures injected so far
  resp,        \* the outcome of the most recent chat / evaluation request
  clock,       \* the database server's func.now()
  logcall,     \* the most recent log_job_activity call and its session
  provider,    \* the fine-tuning provider: files received, jobs submitted
  generator,   \* the generate_synthetic_jsonl invocation under study
  fn,          \* the most recent direct call of a function or read request
  tasks,       \* the background tasks added and not yet run
  containers,  \* the containers of the remote blob service that exist
  puts         \* the upload_to_blob_async calls under study, step by step

vars == <<remote, jobs, documents, models, logs, blobs, files, dirs, calls,
          faults, resp, clock, logcall, provider, generator, fn,
          tasks, containers, puts>>

\* ------------------------------------------------------ object store adapter
LOCAL_STORAGE_FOLDER == <<"local_storage">>

\* The store an adapter call works on: the blob service and the filesystem.
Store(b, f) == [blobs |-> b, files |-> f]

\* upload_to_blob_async raises ValueError on an empty name, container or data.
PutRaises(data, blob_name, container) ==
  Falsy(blob_name) \/ Falsy(container) \/ Falsy(data)

\* The locator upload_to_blob_async returns.
PutPath(blob_name, container) ==
  IF remote THEN container \o blob_name ELSE LOCAL_STORAGE_FOLDER \o blob_name

\* The store after upload_to_blob_async wrote `data` (overwrite=True).
Put(st, data, blob_name, container) ==
  IF remote
  THEN Store((PutPath(blob_name, container) :> data) @@ st.blobs, st.files)
  ELSE Store(st.blobs, (PutPath(blob_name, container) :> data) @@ st.files)

HasPrefix(path, prefix) ==
  Len(path) >= Len(prefix) /\ SubSeq(path, 1, Len(prefix)) = prefix

\* blob_path with the "container/" prefix removed, if present.
StripContainer(blob_path, container) ==
  IF HasPrefix(blob_path, container) /\ Len(blob_path) > Len(container)
  THEN SubSeq(blob_path, Len(container) + 1, Len(blob_path))
  ELSE blob_path

Basename(path) == <<path[Len(path)]>>

\* The local path download_from_blob_async returns.
GetPath(blob_path, container) ==
  IF remote
  THEN LOCAL_STORAGE_FOLDER \o Basename(StripContainer(blob_path, container))
  ELSE blob_path

\* download_from_blob_async raises: empty arguments, or nothing stored there.
GetRaises(st, blob_path, container) ==
  \/ Falsy(blob_path) \/ Falsy(container)
  \/ IF remote
     THEN (container \o StripContainer(blob_path, container)) \notin DOMAIN st.blobs
     ELSE blob_path \notin DOMAIN st.files

\* The store after download_from_blob_async: the remote backend writes the
\* blob to LOCAL_STORAGE_FOLDER/basename, the local fallback writes nothing.
Get(st, blob_path, container) ==
  IF remote
  THEN Store(st.blobs,
             (GetPath(blob_path, container)
                :> st.blobs[container \o StripContainer(blob_path, container)])
               @@ st.files)
  ELSE st

\* os.remove(path) guarded by os.path.exists(path).
Remove(st, path) ==
  Store(st.blobs, [p \in DOMAIN st.files \ {path} |-> st.files[p]])

\* ------------------------------------------------------------- activity log
\* JobLogger.log_job_activity: append one entry and commit; when the write
\* fails the entry is rolled back and nothing is raised.
\* The timestamp column is filled by the server default func.now().
log_job_activity(lg, job_id, event_type, message, fails) ==
  IF fails THEN lg
  ELSE Append(lg, [job_id |-> job_id, event_type |-> event_type,
                   message |-> message, timestamp |-> clock])

\* The Job, Document and FineTunedModel tables.
Tables(j, d, m) == [jobs |-> j, documents |-> d, models |-> m]

\* A SQLAlchemy session: the tables as committed, and as the session sees
\* them with the changes it has not committed yet.
Session(committed, view) == [committed |-> committed, view |-> view]

\* db.rollback() drops the uncommitted changes, db.commit() commits them.
Rollback(s) == Session(s.committed, s.committed)
Commit(s) == Session(s.view, s.view)

\* A variant of the call sites in which the caller has committed nothing
\* of what its session holds.
SessionAtLogUncommitted(tables) == Session(Tables(<<>>, <<>>, <<>>), tables)

\* The session at a log_job_activity call: every call site follows a commit
\* or a rollback of the caller, or precedes its first change.
SessionAtLog(tables) == Session(tables, tables)

\* The session after log_job_activity: db.add(log_entry); db.commit(), and
\* db.rollback() in the except branch.
SessionAfterLog(s, fails) == IF fails THEN Rollback(s) ELSE Commit(s)

\* The record of one log_job_activity call.
LogCall(job_id, event_type, fails, tables) ==
  [ job_id |-> job_id, event_type |-> event_type, failed |-> fails,
    before |-> SessionAtLog(tables),
    after |-> SessionAfterLog(SessionAtLog(tables), fails) ]

NoLogCall == LogCall(0, "", FALSE, Tables(<<>>, <<>>, <<>>))

\* ------------------------------------------------------------ fault injection
RECURSIVE SetsUpTo(_, _)
SetsUpTo(points, k) ==
  IF k = 0 THEN {{}}
  ELSE LET S == SetsUpTo(points, k - 1)
       IN  S \cup { s \cup {p} : s \in S, p \in points }

\* The sets of failure points one step may draw: within the remaining budget
\* when the step runs in a failing environment, none otherwise.
FaultSets(points, faulty) ==
  IF faulty THEN SetsUpTo(points, MaxFaults - faults) ELSE {{}}

\* ---------------------------------------------------- synthetic generator
\* What generate_synthetic_jsonl returns for a non-empty chunk list: the
\* validated lines of the model's response ("llm") or, after max_attempts
\* failed attempts, the template-filled lines ("fallback").  A line is tagged
\* with its origin and the first character of the input text; lines are
\* joined with newlines.
generate_synthetic_jsonl(chunks, gen) ==
  LET line == << (IF gen = "llm" THEN "L" ELSE "F"), chunks[1][1] >>
  IN  JoinWith(<<"\n">>, <<line, line>>)

\* _log_response: the raw responses written, best effort, to the logs
\* container under synthetic_logs/job-<id>/.
LogResponses(st, job_id, jsonl, gen, fails) ==
  LET dir == <<"synthetic_logs", "job", ToString(job_id)>>
      primary == Put(st, IF gen = "llm" THEN jsonl ELSE <<"?">>,
                     dir \o <<"raw_response.txt">>, <<"logs">>)
  IN  IF fails THEN st
      ELSE IF gen = "llm" THEN primary
      ELSE Put(primary, jsonl, dir \o <<"fallback_raw_response.txt">>, <<"logs">>)

\* ------------------------------------------------------------ index builder
\* The bytes of the index file faiss.write_index leaves: one vector per
\* embedded chunk, in order.
IndexBytes(chunks) == [ntotal |-> Len(chunks), vectors |-> chunks]

\* json.dumps(chunks) and json.load of it.
JsonDumps(chunks) == <<"json", chunks>>
JsonLoads(text) == text[2]

\* faiss_index_<id(index)>.bin: the object id is whatever the allocator gives.
IndexIds == {"id1", "id2"}
IndexPath(ix) == LOCAL_STORAGE_FOLDER \o <<"faiss", ix>>

\* A variant of the emptiness test of create_faiss_index that lets the
\* empty list through.
NoChunksUnchecked(chunks) == FALSE

\* `if not chunks` of create_faiss_index.
NoChunks(chunks) == Empty(chunks)

\* RagService.create_faiss_index on a non-empty list: the store after the
\* index file was written.
create_faiss_index(st, chunks, ix) ==
  Store(st.blobs, (IndexPath(ix) :> IndexBytes(chunks)) @@ st.files)

\* ------------------------------------------------------------------ replies
\* The outcome of a chat / evaluation request: the HTTP status of the
\* HTTPException raised ("404", "500"), "error" for any other exception,
\* "ok" for a normal return; and the provider calls it made.
Reply(op, job_id, mode, outcome, detail, embed_calls, chat_calls, retrieved) ==
  [ op |-> op, job_id |-> job_id, mode |-> mode, outcome |-> outcome,
    detail |-> detail, embed_calls |-> embed_calls, chat_calls |-> chat_calls,
    retrieved |-> retrieved ]

NoResp == Reply("none", 0, "", "", "", 0, 0, {})

\* ------------------------------------------------------ upload orchestrator
\* folder_name = f"job-{job.id}-{job_name}"
FolderName(job_id, job_name) == <<"job", ToString(job_id), job_name>>

JobRow(job_name, file_count) ==
  [ status |-> <<"pending">>, type |-> "process_document",
    file_count |-> file_count, job_name |-> job_name,
    document_count |-> 0, completed_at |-> None ]

DocumentRow(job_id, blob_path, file_type, jsonl, faiss, chunks, aggregated) ==
  [ job_id |-> job_id, blob_path |-> blob_path, file_type |-> file_type,
    jsonl_blob_path |-> jsonl, faiss_index_blob_path |-> faiss,
    chunks_blob_path |-> chunks, is_aggregated |-> aggregated ]

\* The local variables of one upload_files invocation.  `yields` records what
\* the parser returned for each file processed so far.
CallRec(job_name, batch, job, pc, outcome) ==
  [ job_name |-> job_name, batch |-> batch, job |-> job, pc |-> pc,
    i |-> 1, aggregated_jsonl |-> <<>>, aggregated_chunks |-> <<>>,
    doc_count |-> 0, outcome |-> outcome, failed_at |-> 0, error |-> "",
    yields |-> <<>> ]

\* A variant of the emptiness test that lets every list through.
NoFilesUnchecked(batch) == FALSE

\* `if not files`: the batch upload_files rejects.
NoFiles(batch) == Empty(batch)

\* A variant of the chunk accumulation that puts a file's chunks in front of
\* those of the files before it.
AccumulateChunksInFront(aggregated_chunks, chunks) ==
  IF ~Empty(chunks) THEN chunks \o aggregated_chunks ELSE aggregated_chunks

\* A variant of the JSONL accumulation that appends whatever the parser
\* returned, None included.
AccumulateJsonlAlways(aggregated_jsonl, jsonl) ==
  Append(aggregated_jsonl, jsonl)

\* The accumulation of one file's artifacts into the job-level lists:
\* aggregated_jsonl.append(jsonl) and aggregated_chunks.extend(chunks), each
\* guarded by the truthiness of what the parser returned.
AccumulateJsonl(aggregated_jsonl, jsonl) ==
  IF ~Falsy(jsonl) THEN Append(aggregated_jsonl, jsonl) ELSE aggregated_jsonl

AccumulateChunks(aggregated_chunks, chunks) ==
  IF ~Empty(chunks) THEN aggregated_chunks \o chunks ELSE aggregated_chunks

\* The invocation after one pass of the file loop that raised nothing.
FileDone(call, jsonl, chunks, index_failed) ==
  [call EXCEPT !.i = call.i + 1,
               !.doc_count = call.doc_count + 1,
               !.aggregated_jsonl = AccumulateJsonl(call.aggregated_jsonl, jsonl),
               !.aggregated_chunks = AccumulateChunks(call.aggregated_chunks, chunks),
               !.yields = Append(call.yields,
                  [jsonl |-> jsonl, chunks |-> chunks, index_failed |-> index_failed]),
               !.pc = IF call.i = Len(call.batch) THEN "aggregate" ELSE "files"]

\* A variant of the except branch that skips the file and goes on with the
\* next one.
FileSkipped(call, error) ==
  [call EXCEPT !.i = call.i + 1,
               !.failed_at = call.i, !.error = error,
               !.pc = IF call.i = Len(call.batch) THEN "aggregate" ELSE "files"]

\* The invocation after the except branch of the file loop: the
\* HTTPException(500) leaves upload_files.
FileFailed(call, error) ==
  [call EXCEPT !.pc = "done", !.outcome = "http500",
               !.failed_at = call.i, !.error = error,
               !.aggregated_jsonl = <<>>, !.aggregated_chunks = <<>>]

\* The invocation after an exception nothing in upload_files catches.
Raised(call, error) ==
  [call EXCEPT !.pc = "done", !.outcome = "raised", !.error = error,
               !.aggregated_jsonl = <<>>, !.aggregated_chunks = <<>>]

\* A variant of the aggregated row that is not flagged as aggregated.
AggregatedDocumentUnflagged(job_id, jsonl, faiss, chunks) ==
  DocumentRow(job_id, <<>>, "aggregated", jsonl, faiss, chunks, FALSE)

\* The aggregated Document row of _create_aggregated_artifacts.
AggregatedDocument(job_id, jsonl, faiss, chunks) ==
  DocumentRow(job_id, <<>>, "aggregated", jsonl, faiss, chunks, TRUE)

\* The Job row as _finalize_job commits it.
FinalizedJob(job, doc_count) ==
  [job EXCEPT !.document_count = doc_count,
              !.status = <<"completed">>,
              !.completed_at = <<"now">>]

\* upload_files up to the file loop: the empty-list check, _create_job and
\* _get_folders.  A behaviour holds one invocation.
UploadStart(faulty) ==
  /\ calls = <<>>
  /\ \E job_name \in JobNames, n \in 0..MaxFiles,
        F \in FaultSets({"commit_job", "log"}, faulty) :
       /\ \E batch \in [1..n -> Files] :
            LET job_id == Len(jobs) + 1
            IN  /\ faults' = faults + Cardinality(F)
                /\ IF NoFiles(batch)
                   THEN \* HTTPException(400, "No files uploaded")
                        /\ calls' = Append(calls, CallRec(job_name, batch, 0, "done", "http400"))
                        /\ UNCHANGED <<jobs, logs, dirs, logcall>>
                   ELSE IF "commit_job" \in F
                   THEN \* db.commit() of the Job row raised
                        /\ calls' = Append(calls, CallRec(job_name, batch, 0, "done", "raised"))
                        /\ UNCHANGED <<jobs, logs, dirs, logcall>>
                   ELSE /\ jobs' = Append(jobs, JobRow(job_name, Len(batch)))
                        /\ logs' = log_job_activity(logs, job_id, "job_created", <<>>,
                                                    "log" \in F)
                        /\ logcall' = LogCall(job_id, "job_created", "log" \in F,
                                              Tables(jobs', documents, models))
                        /\ dirs' = dirs \cup {LOCAL_STORAGE_FOLDER \o FolderName(job_id, job_name)}
                        /\ calls' = Append(calls,
                              CallRec(job_name, batch, job_id,
                                      IF batch = <<>> THEN "aggregate" ELSE "files",
                                      "running"))
  /\ resp' = NoResp
  /\ UNCHANGED <<remote, documents, models, blobs, files>>
  /\ UNCHANGED <<clock, provider, generator, fn, tasks, containers, puts>>


\* The points of one pass of the file loop at which an external call can fail.
FilePoints ==
  { "log", "put_original", "get_original", "parse", "llm", "put_response_log",
    "put_jsonl", "embed", "put_index", "put_chunks", "commit_document" }

\* One pass of the file loop of _process_files, with _upload_artifacts and
\* _create_document_record: file i of the batch, from file_upload_started to
\* the Document row, or to the except branch that ends the upload.
ProcessFile(c, faulty) ==
  /\ calls[c].pc = "files"
  /\ \E F \in FaultSets(FilePoints, faulty), ix \in IndexIds :
       LET call == calls[c]
           gen == IF "llm" \in F THEN "fallback" ELSE "llm"
           file == call.batch[call.i]
           job_id == call.job
           blob_folder == FolderName(job_id, call.job_name)
           st0 == Store(blobs, files)
           logs1 == log_job_activity(logs, job_id, "file_upload_started",
                                     <<file.filename>>, "log" \in F)
           \* upload the original, read it back
           orig_name == blob_folder \o <<file.filename>>
           put_ok == ~PutRaises(file.content, orig_name, <<"documents">>)
                       /\ "put_original" \notin F
           st1 == Put(st0, file.content, orig_name, <<"documents">>)
           doc_blob_path == PutPath(orig_name, <<"documents">>)
           get_ok == ~GetRaises(st1, doc_blob_path, <<"documents">>)
                       /\ "get_original" \notin F
           st2 == Get(st1, doc_blob_path, <<"documents">>)
           local_file_path == GetPath(doc_blob_path, <<"documents">>)
           \* DocumentParser.process_file
           type_ok == file.content_type \in SupportedTypes
           parse_ok == type_ok /\ "parse" \notin F
           text == st2.files[local_file_path]
           chunks == chunk_text(text, chunk_size)
           jsonl == IF chunks # <<>> THEN generate_synthetic_jsonl(chunks, gen) ELSE None
           st3 == IF chunks # <<>>
                  THEN LogResponses(st2, job_id, jsonl, gen, "put_response_log" \in F)
                  ELSE st2
           \* _upload_artifacts
           id_name == <<ToString(job_id), file.filename>>
           jsonl_name == blob_folder \o <<"jsonl">> \o id_name \o <<"combined.jsonl">>
           faiss_name == blob_folder \o <<"faiss">> \o id_name \o <<"index.bin">>
           chunks_name == blob_folder \o <<"chunks">> \o id_name \o <<"chunks.json">>
           jsonl_ok == Falsy(jsonl) \/ "put_jsonl" \notin F
           st4 == IF Falsy(jsonl) THEN st3 ELSE Put(st3, jsonl, jsonl_name, <<"artifacts">>)
           jsonl_blob == IF Falsy(jsonl) THEN None ELSE PutPath(jsonl_name, <<"artifacts">>)
           has_chunks == ~Empty(chunks)
           embedded == has_chunks /\ "embed" \notin F
           index_up == embedded /\ "put_index" \notin F
           chunks_up == index_up /\ "put_chunks" \notin F
           st5 == IF embedded THEN create_faiss_index(st4, chunks, ix) ELSE st4
           st6 == IF index_up
                  THEN Put(st5, st5.files[IndexPath(ix)], faiss_name, <<"artifacts">>)
                  ELSE st5
           st7 == IF chunks_up
                  THEN Remove(Put(st6, JsonDumps(chunks), chunks_name, <<"artifacts">>),
                              IndexPath(ix))
                  ELSE st6
           faiss_blob == IF index_up THEN PutPath(faiss_name, <<"artifacts">>) ELSE None
           chunks_blob == IF chunks_up THEN PutPath(chunks_name, <<"artifacts">>) ELSE None
           \* _create_document_record
           commit_ok == "commit_document" \notin F
           row == DocumentRow(job_id, doc_blob_path, file.content_type,
                              jsonl_blob, faiss_blob, chunks_blob, FALSE)
           \* the first step that raised, if any
           error == IF ~put_ok THEN "put_original"
                    ELSE IF ~get_ok THEN "get_original"
                    ELSE IF ~type_ok THEN "unsupported_type"
                    ELSE IF ~parse_ok THEN "parse"
                    ELSE IF ~jsonl_ok THEN "put_jsonl"
                    ELSE IF ~commit_ok THEN "commit_document"
                    ELSE ""
           st_end == IF ~put_ok THEN st0
                     ELSE IF ~get_ok THEN st1
                     ELSE IF ~parse_ok THEN st2
                     ELSE IF ~jsonl_ok THEN st3
                     ELSE st7
       IN  /\ faults' = faults + Cardinality(F)
           /\ blobs' = st_end.blobs
           /\ files' = st_end.files
           /\ IF error = ""
              THEN /\ documents' = Append(documents, row)
                   /\ logs' = log_job_activity(logs1, job_id, "document_created", <<>>,
                                               "log" \in F)
                   /\ logcall' = LogCall(job_id, "document_created", "log" \in F,
                                         Tables(jobs, documents', models))
                   /\ calls' = [calls EXCEPT ![c] =
                        FileDone(call, jsonl, chunks, has_chunks /\ ~chunks_up)]
              ELSE \* db.rollback(); file_processing_failed; HTTPException(500)
                   /\ documents' = documents
                   /\ logs' = log_job_activity(logs1, job_id, "file_processing_failed",
                                               <<file.filename, error>>, "log" \in F)
                   /\ logcall' = LogCall(job_id, "file_processing_failed", "log" \in F,
                                         Tables(jobs, documents, models))
                   /\ calls' = [calls EXCEPT ![c] = FileFailed(call, error)]
  /\ resp' = NoResp
  /\ UNCHANGED <<remote, jobs, models, dirs>>
  /\ UNCHANGED <<clock, provider, generator, fn, tasks, containers, puts>>


AggregatePoints ==
  { "log", "put_jsonl", "embed", "put_index", "put_chunks", "commit_document" }

\* _create_aggregated_artifacts: the job-level JSONL, index and chunk list,
\* and the aggregated Document row.  Nothing here is caught: the first
\* failure leaves upload_files.
CreateAggregated(c, faulty) ==
  /\ calls[c].pc = "aggregate"
  /\ \E F \in FaultSets(AggregatePoints, faulty), ix \in IndexIds :
       LET call == calls[c]
           job_id == call.job
           blob_folder == FolderName(job_id, call.job_name)
           st0 == Store(blobs, files)
           has_jsonl == ~Empty(call.aggregated_jsonl)
           has_chunks == ~Empty(call.aggregated_chunks)
           combined_jsonl_str == JoinWith(<<"\n">>, call.aggregated_jsonl)
           jsonl_name == blob_folder \o <<"jsonl", ToString(job_id), "combined.jsonl">>
           faiss_name == blob_folder \o <<"faiss", ToString(job_id), "combined.bin">>
           chunks_name == blob_folder \o <<"chunks", ToString(job_id), "combined.json">>
           jsonl_ok == ~has_jsonl \/ "put_jsonl" \notin F
           embed_ok == ~has_chunks \/ "embed" \notin F
           index_ok == ~has_chunks \/ "put_index" \notin F
           chunks_ok == ~has_chunks \/ "put_chunks" \notin F
           commit_ok == "commit_document" \notin F
           st1 == IF has_jsonl THEN Put(st0, combined_jsonl_str, jsonl_name, <<"artifacts">>)
                  ELSE st0
           logs1 == IF has_jsonl
                    THEN log_job_activity(logs, job_id, "aggregated_jsonl_created", <<>>,
                                          "log" \in F)
                    ELSE logs
           st2 == IF has_chunks THEN create_faiss_index(st1, call.aggregated_chunks, ix)
                  ELSE st1
           st3 == IF has_chunks
                  THEN Put(st2, st2.files[IndexPath(ix)], faiss_name, <<"artifacts">>)
                  ELSE st2
           st4 == IF has_chunks
                  THEN Put(st3, JsonDumps(call.aggregated_chunks), chunks_name, <<"artifacts">>)
                  ELSE st3
           st5 == IF has_chunks THEN Remove(st4, IndexPath(ix)) ELSE st4
           logs2 == IF has_chunks
                    THEN log_job_activity(
                           log_job_activity(logs1, job_id, "aggregated_faiss_created", <<>>,
                                            "log" \in F),
                           job_id, "aggregated_chunks_created", <<>>,
                           "log" \in F)
                    ELSE logs1
           row == AggregatedDocument(job_id,
                    IF has_jsonl THEN PutPath(jsonl_name, <<"artifacts">>) ELSE None,
                    IF has_chunks THEN PutPath(faiss_name, <<"artifacts">>) ELSE None,
                    IF has_chunks THEN PutPath(chunks_name, <<"artifacts">>) ELSE None)
           error == IF ~jsonl_ok THEN "put_jsonl"
                    ELSE IF ~embed_ok THEN "embed"
                    ELSE IF ~index_ok THEN "put_index"
                    ELSE IF ~chunks_ok THEN "put_chunks"
                    ELSE IF ~commit_ok THEN "commit_document"
                    ELSE ""
           st_end == IF ~jsonl_ok THEN st0
                     ELSE IF ~embed_ok THEN st1
                     ELSE IF ~index_ok THEN st2
                     ELSE IF ~chunks_ok THEN st3
                     ELSE st5
           logs_end == IF ~jsonl_ok THEN logs
                       ELSE IF ~embed_ok \/ ~index_ok \/ ~chunks_ok THEN logs1
                       ELSE IF ~commit_ok THEN logs2
                       ELSE log_job_activity(logs2, job_id, "aggregated_document_created",
                                             <<>>, "log" \in F)
           \* the last log_job_activity call made before upload_files was left
           last_event == IF ~jsonl_ok THEN ""
                         ELSE IF ~embed_ok \/ ~index_ok \/ ~chunks_ok
                         THEN (IF has_jsonl THEN "aggregated_jsonl_created" ELSE "")
                         ELSE IF ~commit_ok
                         THEN (IF has_chunks THEN "aggregated_chunks_created"
                               ELSE IF has_jsonl THEN "aggregated_jsonl_created" ELSE "")
                         ELSE "aggregated_document_created"
       IN  /\ faults' = faults + Cardinality(F)
           /\ blobs' = st_end.blobs
           /\ files' = st_end.files
           /\ logs' = logs_end
           /\ documents' = IF error = "" THEN Append(documents, row) ELSE documents
           /\ logcall' = IF last_event = "" THEN logcall
                         ELSE LogCall(job_id, last_event, "log" \in F,
                                      Tables(jobs, documents', models))
           /\ calls' = [calls EXCEPT ![c] =
                IF error = ""
                THEN [call EXCEPT !.pc = "finalize"]
                ELSE Raised(call, error)]
  /\ resp' = NoResp
  /\ UNCHANGED <<remote, jobs, models, dirs>>
  /\ UNCHANGED <<clock, provider, generator, fn, tasks, containers, puts>>

\* _finalize_job: the counts, `completed`, completed_at; job_completed; and
\* the removal of the job folder when it is empty.
FinalizeJob(c, faulty) ==
  /\ calls[c].pc = "finalize"
  /\ \E F \in FaultSets({"commit_job", "log"}, faulty) :
       LET call == calls[c]
           job_id == call.job
           job_folder == LOCAL_STORAGE_FOLDER \o FolderName(job_id, call.job_name)
           empty == ~\E p \in DOMAIN files : HasPrefix(p, job_folder)
       IN  /\ faults' = faults + Cardinality(F)
           /\ IF "commit_job" \in F
              THEN /\ UNCHANGED <<jobs, logs, dirs, logcall>>
                   /\ calls' = [calls EXCEPT ![c] = Raised(call, "commit_job")]
              ELSE /\ jobs' = [jobs EXCEPT ![job_id] = FinalizedJob(@, call.doc_count)]
                   /\ logs' = log_job_activity(logs, job_id, "job_completed", <<>>,
                                               "log" \in F)
                   /\ logcall' = LogCall(job_id, "job_completed", "log" \in F,
                                         Tables(jobs', documents, models))
                   /\ dirs' = IF empty THEN dirs \ {job_folder} ELSE dirs
                   /\ calls' = [calls EXCEPT ![c] =
                        [call EXCEPT !.pc = "done", !.outcome = "returned",
                                     !.aggregated_jsonl = <<>>,
                                     !.aggregated_chunks = <<>>]]
  /\ resp' = NoResp
  /\ UNCHANGED <<remote, documents, models, blobs, files>>
  /\ UNCHANGED <<clock, provider, generator, fn, tasks, containers, puts>>


\* ------------------------------------------- upload orchestrator, step by step
\* Up to MaxInvocations upload_files invocations at the grain of their
\* suspension points: each step is one awaited object-store call followed by
\* the code that runs up to the next await.  Every external call succeeds.
MaxInvocations == 2

\* The files of these invocations: each yields chunks, and two of them
\* share a file name.
PairFiles == { f \in Files : f.filename \in {"one.txt", "long.txt"} }

\* f"{blob_folder}/{file.filename}" of _process_files.
OriginalName(job_id, job_name, filename) ==
  FolderName(job_id, job_name) \o <<filename>>

\* The blob names of _upload_artifacts (under <job id>/<file name>) and of
\* _create_aggregated_artifacts (under <job id>).
ArtifactName(job_id, job_name, kind, aggregated, filename) ==
  LET id_name == IF aggregated THEN <<ToString(job_id)>>
                 ELSE <<ToString(job_id), filename>>
      suffix == IF kind = "jsonl" THEN "combined.jsonl"
                ELSE IF kind = "faiss"
                THEN (IF aggregated THEN "combined.bin" ELSE "index.bin")
                ELSE (IF aggregated THEN "combined.json" ELSE "chunks.json")
  IN  FolderName(job_id, job_name) \o <<kind>> \o id_name \o <<suffix>>

\* The local variables of such an invocation: those of CallRec, and the
\* artifacts in hand, the index file read, the phase (the file loop or the
\* aggregated artifacts) and the local files it wrote and has not removed.
StepRec(job_name, file, job) ==
  [ phase |-> "file", chunks |-> <<>>, jsonl |-> None, file_content |-> None,
    index_path |-> None, local_file_path |-> None, wrote |-> {} ]
    @@ CallRec(job_name, <<file>>, job, "store", "running")

\* The name of an artifact the invocation is uploading.
StepName(call, kind) ==
  ArtifactName(call.job, call.job_name, kind, call.phase = "aggregated",
               call.batch[Min(call.i, Len(call.batch))].filename)

\* upload_files up to its first await: _create_job, _get_folders and the
\* file_upload_started entry of the first file.
ConcurrentStart ==
  /\ Len(calls) < MaxInvocations
  /\ \E job_name \in JobNames, file \in PairFiles :
       LET job_id == Len(jobs) + 1
           logs1 == log_job_activity(logs, job_id, "job_created", <<>>, FALSE)
       IN  /\ jobs' = Append(jobs, JobRow(job_name, 1))
           /\ logs' = log_job_activity(logs1, job_id, "file_upload_started",
                                       <<file.filename>>, FALSE)
           /\ logcall' = LogCall(job_id, "file_upload_started", FALSE,
                                 Tables(jobs', documents, models))
           /\ dirs' = dirs \cup {LOCAL_STORAGE_FOLDER \o FolderName(job_id, job_name)}
           /\ calls' = Append(calls, StepRec(job_name, file, job_id))
  /\ UNCHANGED <<remote, documents, models, blobs, files, faults, resp>>
  /\ UNCHANGED <<clock, provider, generator, fn, tasks, containers, puts>>

\* `await upload_to_blob_async(file.file.read(), ...)` of the original.
StoreOriginal(c) ==
  /\ calls[c].pc = "store"
  /\ LET call == calls[c]
         file == call.batch[call.i]
         st == Put(Store(blobs, files), file.content,
                   OriginalName(call.job, call.job_name, file.filename), <<"documents">>)
     IN  /\ blobs' = st.blobs
         /\ files' = st.files
         /\ calls' = [calls EXCEPT ![c].pc = "fetch"]
  /\ UNCHANGED <<remote, jobs, documents, models, logs, dirs, faults, resp>>
  /\ UNCHANGED <<clock, logcall, provider, generator, fn, tasks, containers, puts>>

\* `await download_from_blob_async(doc_blob_path, "documents")`, then
\* DocumentParser.process_file up to the upload of the raw response: the
\* local file is read, chunked, and the generator's model is asked.
FetchOriginal(c) ==
  /\ calls[c].pc = "fetch"
  /\ LET call == calls[c]
         file == call.batch[call.i]
         doc_blob_path == PutPath(OriginalName(call.job, call.job_name, file.filename),
                                  <<"documents">>)
         st == Get(Store(blobs, files), doc_blob_path, <<"documents">>)
         local_file_path == GetPath(doc_blob_path, <<"documents">>)
         chunks == chunk_text(st.files[local_file_path], chunk_size)
     IN  /\ blobs' = st.blobs
         /\ files' = st.files
         /\ calls' = [calls EXCEPT ![c] =
              [call EXCEPT !.pc = "response_log",
                           !.local_file_path = local_file_path,
                           !.chunks = chunks,
                           !.jsonl = generate_synthetic_jsonl(chunks, "llm"),
                           !.wrote = IF remote THEN @ \cup {local_file_path} ELSE @]]
  /\ UNCHANGED <<remote, jobs, documents, models, logs, dirs, faults, resp>>
  /\ UNCHANGED <<clock, logcall, provider, generator, fn, tasks, containers, puts>>

\* `await self._log_response(job_id, raw_response, primary=True)`, then the
\* return of process_file and the accumulation into the job-level lists.
LogRawResponse(c) ==
  /\ calls[c].pc = "response_log"
  /\ LET call == calls[c]
         st == LogResponses(Store(blobs, files), call.job, call.jsonl, "llm", FALSE)
     IN  /\ blobs' = st.blobs
         /\ files' = st.files
         /\ calls' = [calls EXCEPT ![c] =
              [call EXCEPT !.pc = "jsonl",
                           !.aggregated_jsonl = AccumulateJsonl(@, call.jsonl),
                           !.aggregated_chunks = AccumulateChunks(@, call.chunks)]]
  /\ UNCHANGED <<remote, jobs, documents, models, logs, dirs, faults, resp>>
  /\ UNCHANGED <<clock, logcall, provider, generator, fn, tasks, containers, puts>>

\* `await upload_to_blob_async(...)` of the JSONL of the file or of the job,
\* then RagService.create_faiss_index and the read of the index file.
PutJsonl(c) ==
  /\ calls[c].pc = "jsonl"
  /\ \E ix \in IndexIds :
       LET call == calls[c]
           aggregated == call.phase = "aggregated"
           jsonl == IF aggregated THEN JoinWith(<<"\n">>, call.aggregated_jsonl)
                    ELSE call.jsonl
           chunks == IF aggregated THEN call.aggregated_chunks ELSE call.chunks
           st1 == Put(Store(blobs, files), jsonl, StepName(call, "jsonl"), <<"artifacts">>)
           st2 == create_faiss_index(st1, chunks, ix)
       IN  /\ blobs' = st2.blobs
           /\ files' = st2.files
           /\ logs' = IF aggregated
                      THEN log_job_activity(logs, call.job, "aggregated_jsonl_created",
                                            <<>>, FALSE)
                      ELSE logs
           /\ logcall' = IF aggregated
                         THEN LogCall(call.job, "aggregated_jsonl_created", FALSE,
                                      Tables(jobs, documents, models))
                         ELSE logcall
           /\ calls' = [calls EXCEPT ![c] =
                [call EXCEPT !.pc = "index",
                             !.index_path = IndexPath(ix),
                             !.file_content = st2.files[IndexPath(ix)],
                             !.wrote = @ \cup {IndexPath(ix)}]]
  /\ UNCHANGED <<remote, jobs, documents, models, dirs, faults, resp>>
  /\ UNCHANGED <<clock, provider, generator, fn, tasks, containers, puts>>

\* `await upload_to_blob_async(file_content, ...)` of the index.
PutIndex(c) ==
  /\ calls[c].pc = "index"
  /\ LET call == calls[c]
         st == Put(Store(blobs, files), call.file_content, StepName(call, "faiss"),
                   <<"artifacts">>)
     IN  /\ blobs' = st.blobs
         /\ files' = st.files
         /\ calls' = [calls EXCEPT ![c].pc = "chunks"]
  /\ UNCHANGED <<remote, jobs, documents, models, logs, dirs, faults, resp>>
  /\ UNCHANGED <<clock, logcall, provider, generator, fn, tasks, containers, puts>>

\* `await upload_to_blob_async(...)` of the chunk list, then the removal of
\* the index file and the Document row; after the last file the code runs
\* on into _create_aggregated_artifacts, after the aggregated artifacts
\* into _finalize_job.
PutChunks(c) ==
  /\ calls[c].pc = "chunks"
  /\ LET call == calls[c]
         aggregated == call.phase = "aggregated"
         file == call.batch[call.i]
         chunks == IF aggregated THEN call.aggregated_chunks ELSE call.chunks
         st == Remove(Put(Store(blobs, files), JsonDumps(chunks),
                          StepName(call, "chunks"), <<"artifacts">>),
                      call.index_path)
         jsonl_blob == PutPath(StepName(call, "jsonl"), <<"artifacts">>)
         faiss_blob == PutPath(StepName(call, "faiss"), <<"artifacts">>)
         chunks_blob == PutPath(StepName(call, "chunks"), <<"artifacts">>)
         row == IF aggregated
                THEN AggregatedDocument(call.job, jsonl_blob, faiss_blob, chunks_blob)
                ELSE DocumentRow(call.job,
                       PutPath(OriginalName(call.job, call.job_name, file.filename),
                               <<"documents">>),
                       file.content_type, jsonl_blob, faiss_blob, chunks_blob, FALSE)
         last == call.i = Len(call.batch)
         events == IF aggregated
                   THEN <<"aggregated_faiss_created", "aggregated_chunks_created",
                          "aggregated_document_created">>
                   ELSE IF last THEN <<"document_created">>
                   ELSE <<"document_created", "file_upload_started">>
         Logged[k \in 0..Len(events)] ==
           IF k = 0 THEN logs
           ELSE log_job_activity(Logged[k - 1], call.job, events[k],
                   IF events[k] = "file_upload_started"
                   THEN <<call.batch[call.i + 1].filename>> ELSE <<>>, FALSE)
     IN  /\ blobs' = st.blobs
         /\ files' = st.files
         /\ documents' = Append(documents, row)
         /\ logs' = Logged[Len(events)]
         /\ logcall' = LogCall(call.job, events[Len(events)], FALSE,
                               Tables(jobs, documents', models))
         /\ calls' = [calls EXCEPT ![c] =
              [call EXCEPT
                 !.wrote = @ \ {call.index_path},
                 !.doc_count = IF aggregated THEN @ ELSE @ + 1,
                 !.i = IF aggregated THEN @ ELSE @ + 1,
                 !.yields = IF aggregated THEN @
                            ELSE Append(@, [jsonl |-> call.jsonl, chunks |-> call.chunks,
                                            index_failed |-> FALSE]),
                 !.phase = IF aggregated \/ last THEN "aggregated" ELSE "file",
                 !.pc = IF aggregated THEN "finalize"
                        ELSE IF last THEN "jsonl" ELSE "store"]]
  /\ UNCHANGED <<remote, jobs, models, dirs, faults, resp>>
  /\ UNCHANGED <<clock, provider, generator, fn, tasks, containers, puts>>


\* ------------------------------------------------------- chat and evaluation
\* A variant of the query without the is_aggregated filter: the first
\* Document of the job.
FirstDocument(job_id) ==
  LET ids == { d \in DOMAIN documents : documents[d].job_id = job_id }
  IN  IF ids = {} THEN 0 ELSE CHOOSE d \in ids : \A e \in ids : d <= e

\* query(Document).filter(job_id, is_aggregated).first(): the id of the first
\* aggregated Document of the job, 0 when there is none.
FirstAggregated(job_id) ==
  LET ids == { d \in DOMAIN documents :
                 documents[d].job_id = job_id /\ documents[d].is_aggregated }
  IN  IF ids = {} THEN 0 ELSE CHOOSE d \in ids : \A e \in ids : d <= e

\* query(FineTunedModel).filter(job_id).order_by(id.desc()).first()
LatestModel(job_id) ==
  LET ids == { m \in DOMAIN models : models[m].job_id = job_id }
  IN  IF ids = {} THEN 0 ELSE CHOOSE m \in ids : \A e \in ids : m >= e

HasModel(job_id) ==
  LatestModel(job_id) # 0 /\ ~Falsy(models[LatestModel(job_id)].openai_model_id)

\* The positions an index.search with k neighbours can return.
KSubsets(n, k) == { S \in SUBSET (1..n) : Cardinality(S) = k }

JobIds == 1..(Len(jobs) + 1)

\* A variant of the context test that looks at the row only, not at its
\* chunks_blob_path.
ChatContextMissingRowOnly(agg, path) == agg = 0

\* `if not agg_doc or not agg_doc.chunks_blob_path` of chat_by_job and
\* `if not aggregated_doc or not aggregated_doc.chunks_blob_path` of
\* evaluate_model.
ChatContextMissing(agg, path) == agg = 0 \/ Falsy(path)
EvalContextMissing(agg, path) == agg = 0 \/ Falsy(path)

ChatPoints == { "get_chunks", "embed", "embed_query", "chat" }

\* ChatService.chat_by_job, a whole request.
ChatByJob ==
  /\ \E job_id \in JobIds, mode \in {"rag", "raft", "fine_tuned_only"},
        F \in FaultSets(ChatPoints, TRUE), ix \in IndexIds :
       LET agg == FirstAggregated(job_id)
           path == IF agg = 0 THEN None ELSE documents[agg].chunks_blob_path
           st0 == Store(blobs, files)
           get_ok == ~GetRaises(st0, path, <<"artifacts">>) /\ "get_chunks" \notin F
           st1 == Get(st0, path, <<"artifacts">>)
           aggregated_chunks == JsonLoads(st1.files[GetPath(path, <<"artifacts">>)])
           n == Len(aggregated_chunks)
           k == Min(TopK, n)
       IN  /\ faults' = faults + Cardinality(F)
           /\ IF mode = "fine_tuned_only"
              THEN /\ UNCHANGED <<blobs, files>>
                   /\ resp' = IF ~HasModel(job_id)
                              THEN Reply("chat", job_id, mode, "404", "model", 0, 0, {})
                              ELSE IF "chat" \in F
                              THEN Reply("chat", job_id, mode, "error", "chat", 0, 1, {})
                              ELSE Reply("chat", job_id, mode, "ok", "", 0, 1, {})
              ELSE IF ChatContextMissing(agg, path)
              THEN /\ UNCHANGED <<blobs, files>>
                   /\ resp' = Reply("chat", job_id, mode, "404", "context", 0, 0, {})
              ELSE IF ~get_ok
              THEN /\ UNCHANGED <<blobs, files>>
                   /\ resp' = Reply("chat", job_id, mode, "500", "load", 0, 0, {})
              ELSE /\ blobs' = st1.blobs
                   \* the temporary index is removed in the finally clause
                   /\ files' = Remove(st1, IndexPath(ix)).files
                   /\ IF Empty(aggregated_chunks)
                      THEN resp' = Reply("chat", job_id, mode, "404", "context", 0, 0, {})
                      ELSE IF "embed" \in F
                      THEN resp' = Reply("chat", job_id, mode, "error", "embed", 1, 0, {})
                      ELSE IF "embed_query" \in F
                      THEN resp' = Reply("chat", job_id, mode, "error", "embed", n + 1, 0, {})
                      ELSE \E hits \in KSubsets(n, k) :
                             resp' = IF hits = {}
                                     THEN Reply("chat", job_id, mode, "404", "relevant",
                                                n + 1, 0, hits)
                                     ELSE IF mode = "raft" /\ ~HasModel(job_id)
                                     THEN Reply("chat", job_id, mode, "404", "model",
                                                n + 1, 0, hits)
                                     ELSE IF "chat" \in F
                                     THEN Reply("chat", job_id, mode, "error", "chat",
                                                n + 1, 1, hits)
                                     ELSE Reply("chat", job_id, mode, "ok", "",
                                                n + 1, 1, hits)
  /\ UNCHANGED <<remote, jobs, documents, models, logs, dirs, calls>>
  /\ UNCHANGED <<clock, logcall, provider, generator, fn, tasks, containers, puts>>

\* EvaluationService.evaluate_model, a whole request.  Past the loading of
\* the context every failure is caught per question; the provider calls
\* counted are those of a pass in which no question fails.
EvaluateModel ==
  /\ \E job_id \in JobIds, F \in FaultSets({"get_chunks"}, TRUE) :
       LET agg == FirstAggregated(job_id)
           path == IF agg = 0 THEN None ELSE documents[agg].chunks_blob_path
           st0 == Store(blobs, files)
           get_ok == ~GetRaises(st0, path, <<"artifacts">>) /\ "get_chunks" \notin F
           st1 == Get(st0, path, <<"artifacts">>)
           chunks == JsonLoads(st1.files[GetPath(path, <<"artifacts">>)])
           n == Len(chunks)
       IN  /\ faults' = faults + Cardinality(F)
           /\ IF EvalContextMissing(agg, path)
              THEN /\ UNCHANGED <<blobs, files>>
                   /\ resp' = Reply("evaluate", job_id, "rag", "404", "context", 0, 0, {})
              ELSE IF ~get_ok
              THEN /\ UNCHANGED <<blobs, files>>
                   /\ resp' = Reply("evaluate", job_id, "rag", "500", "load", 0, 0, {})
              ELSE /\ blobs' = st1.blobs
                   /\ files' = st1.files
                   /\ resp' = Reply("evaluate", job_id, "rag", "ok", "",
                                    IF n = 0 THEN 0 ELSE NumQuestions * (n + 1),
                                    IF n = 0 THEN 0 ELSE 2 * NumQuestions, {})
  /\ UNCHANGED <<remote, jobs, documents, models, logs, dirs, calls>>
  /\ UNCHANGED <<clock, logcall, provider, generator, fn, tasks, containers, puts>>

\* ---------------------------------------------------------------- retrieval
\* index.search(query, k) on an index of ntotal vectors: the labels of the
\* nearest vectors, any min(k, ntotal) of 0..ntotal-1, and the label -1 in
\* each of the k places for which the index has no vector left.
Search(ntotal, k) ==
  { [found |-> S, missing |-> k - Cardinality(S)] :
      S \in { T \in SUBSET (0..(ntotal - 1)) : Cardinality(T) = Min(k, ntotal) } }

Labels(hit) == hit.found \cup (IF hit.missing > 0 THEN {-1} ELSE {})

\* `if i < len(chunks)` of the retrieval comprehensions.
InList(i, n) == i < n

\* chunks[i] of a Python list, counted from 1: a negative i counts from
\* the end of the list.
ListPosition(i, n) == IF i < 0 THEN n + i + 1 ELSE i + 1

\* The outcome of a rag_query / rag_query_by_job request: a reply, with the
\* length of the chunk list, the size of the index, the labels that passed
\* the filter and how many texts went into the context.
RagReply(op, id, outcome, detail, embed_calls, chat_calls, n, ntotal, labels, texts) ==
  [ op |-> op, job_id |-> id, mode |-> "rag", outcome |-> outcome,
    detail |-> detail, embed_calls |-> embed_calls, chat_calls |-> chat_calls,
    retrieved |-> { ListPosition(i, n) : i \in labels },
    n |-> n, ntotal |-> ntotal, labels |-> labels, texts |-> texts ]

RagPoints == { "get_index", "get_chunks", "embed_query", "chat" }

\* The body rag_query and rag_query_by_job share, from the test of the
\* Document row d (0: no such row) to the answer.
RagRequest(op, id, d, F) ==
  LET missing == \/ d = 0
                 \/ Falsy(documents[d].faiss_index_blob_path)
                 \/ Falsy(documents[d].chunks_blob_path)
      ipath == documents[d].faiss_index_blob_path
      cpath == documents[d].chunks_blob_path
      st0 == Store(blobs, files)
      index_ok == ~GetRaises(st0, ipath, <<"artifacts">>) /\ "get_index" \notin F
      st1 == Get(st0, ipath, <<"artifacts">>)
      chunks_ok == ~GetRaises(st1, cpath, <<"artifacts">>) /\ "get_chunks" \notin F
      st2 == Get(st1, cpath, <<"artifacts">>)
      index == st2.files[GetPath(ipath, <<"artifacts">>)]
      chunks == JsonLoads(st2.files[GetPath(cpath, <<"artifacts">>)])
      n == Len(chunks)
      k == Min(TopK, n)
  IN  /\ faults' = faults + Cardinality(F)
      /\ IF missing
         THEN /\ UNCHANGED <<blobs, files>>
              /\ resp' = RagReply(op, id, "404", "context", 0, 0, 0, 0, {}, 0)
         ELSE IF ~index_ok
         THEN /\ UNCHANGED <<blobs, files>>
              /\ resp' = RagReply(op, id, "error", "load", 0, 0, 0, 0, {}, 0)
         ELSE IF ~chunks_ok
         THEN /\ blobs' = st1.blobs
              /\ files' = st1.files
              /\ resp' = RagReply(op, id, "error", "load", 0, 0, 0, 0, {}, 0)
         ELSE /\ blobs' = st2.blobs
              /\ files' = st2.files
              /\ IF "embed_query" \in F
                 THEN resp' = RagReply(op, id, "error", "embed", 1, 0, n, index.ntotal, {}, 0)
                 ELSE \E hit \in Search(index.ntotal, k) :
                        LET labels == { i \in Labels(hit) : InList(i, n) }
                            texts == Cardinality({ i \in hit.found : InList(i, n) })
                                       + (IF InList(-1, n) THEN hit.missing ELSE 0)
                        IN  resp' =
                              IF texts = 0
                              THEN RagReply(op, id, "404", "relevant", 1, 0, n,
                                            index.ntotal, labels, texts)
                              ELSE IF "chat" \in F
                              THEN RagReply(op, id, "error", "chat", 1, 1, n,
                                            index.ntotal, labels, texts)
                              ELSE RagReply(op, id, "ok", "", 1, 1, n,
                                            index.ntotal, labels, texts)

\* RagService.rag_query, a whole request on the Document with the given id.
RagQuery ==
  /\ \E document_id \in 1..(Len(documents) + 1), F \in FaultSets(RagPoints, TRUE) :
       RagRequest("rag_query", document_id,
                  IF document_id \in DOMAIN documents THEN document_id ELSE 0, F)
  /\ UNCHANGED <<remote, jobs, documents, models, logs, dirs, calls>>
  /\ UNCHANGED <<clock, logcall, provider, generator, fn, tasks, containers, puts>>

\* RagService.rag_query_by_job, a whole request on the aggregated Document
\* of the job.
RagQueryByJob ==
  /\ \E job_id \in JobIds, F \in FaultSets(RagPoints, TRUE) :
       RagRequest("rag_query_by_job", job_id, FirstAggregated(job_id), F)
  /\ UNCHANGED <<remote, jobs, documents, models, logs, dirs, calls>>
  /\ UNCHANGED <<clock, logcall, provider, generator, fn, tasks, containers, puts>>

\* ------------------------------------------------------------- activity log
\* The database clock advances.
Tick ==
  /\ clock < MaxTicks
  /\ clock' = clock + 1
  /\ UNCHANGED <<remote, jobs, documents, models, logs, blobs, files, dirs, calls,
                 faults, resp, logcall, provider, generator, fn,
                 tasks, containers, puts>>

\* The orders a set of rows can come in.
RECURSIVE Perms(_)
Perms(S) ==
  IF S = {} THEN {<<>>}
  ELSE UNION { { <<x>> \o p : p \in Perms(S \ {x}) } : x \in S }

\* order_by(JobActivityLog.timestamp) over the rows `ids`: ascending
\* timestamps, rows of equal timestamp in whatever order the database
\* returns them.
RECURSIVE OrderedByTimestamp(_)
OrderedByTimestamp(ids) ==
  IF ids = {} THEN {<<>>}
  ELSE LET t == CHOOSE u \in { logs[i].timestamp : i \in ids } :
                  \A i \in ids : u <= logs[i].timestamp
           first == { i \in ids : logs[i].timestamp = t }
       IN  { a \o b : a \in Perms(first), b \in OrderedByTimestamp(ids \ first) }

\* The rows of the activity log of a job.
JobLogIds(job_id) == { i \in DOMAIN logs : logs[i].job_id = job_id }

\* No more than MaxTies rows of the set share a timestamp.
TiesBounded(ids) ==
  \A i \in ids :
    Cardinality({ j \in ids : logs[j].timestamp = logs[i].timestamp }) <= MaxTies

\* The outcome of a get_job_logs request: the ids of the rows listed, in
\* the order of the listing, and their event types.
LogsReply(job_id, outcome, ids) ==
  [ op |-> "get_job_logs", job_id |-> job_id, mode |-> "", outcome |-> outcome,
    detail |-> "", embed_calls |-> 0, chat_calls |-> 0, retrieved |-> {},
    ids |-> ids, events |-> [k \in DOMAIN ids |-> logs[ids[k]].event_type] ]

\* JobLogsService.get_job_logs, a whole request.  It changes nothing a later
\* request reads, so a request that follows another one reaches no state the
\* first did not reach.
GetJobLogs ==
  /\ resp.op # "get_job_logs"
  /\ \E job_id \in JobIds :
       /\ TiesBounded(JobLogIds(job_id))
       /\ IF JobLogIds(job_id) = {}
          THEN resp' = LogsReply(job_id, "404", <<>>)
          ELSE \E ids \in OrderedByTimestamp(JobLogIds(job_id)) :
                 resp' = LogsReply(job_id, "ok", ids)
  /\ UNCHANGED <<remote, jobs, documents, models, logs, blobs, files, dirs, calls,
                 faults, clock, logcall, provider, generator, fn,
                 tasks, containers, puts>>

\* ---------------------------------------------------------------- fine-tune
\* The fine-tune models a request can name.
ModelNames == { <<"base">> }

\* os.path.join(settings.LOCAL_STORAGE_FOLDER, f"combined_{job_id}.jsonl")
CombinedPath(job_id) == LOCAL_STORAGE_FOLDER \o <<"combined", ToString(job_id)>>

\* A variant whose rows are created with a model id.
FineTunedModelRowFilled(job_id, openai_job_id) ==
  [ job_id |-> job_id, openai_job_id |-> openai_job_id,
    openai_model_id |-> openai_job_id ]

\* FineTunedModel(job_id, openai_job_id, openai_model_id=None)
FineTunedModelRow(job_id, openai_job_id) ==
  [ job_id |-> job_id, openai_job_id |-> openai_job_id, openai_model_id |-> None ]

\* The finetune_requested entries of the activity log.
FinetuneRequests ==
  Cardinality({ i \in DOMAIN logs : logs[i].event_type = "finetune_requested" })

\* What a fine-tune request can leave behind: the status of the job, the
\* FineTunedModel rows, the activity log and what the provider received.
Snapshot(job_id, j, m, l, p) ==
  [ status |-> IF job_id \in DOMAIN j THEN j[job_id].status ELSE None,
    models |-> m, logs |-> l, provider |-> p ]

\* The outcome of a fine-tune request, with the snapshots around it.
FinetuneReply(op, job_id, outcome, detail, before, after) ==
  [ op |-> op, job_id |-> job_id, mode |-> "", outcome |-> outcome,
    detail |-> detail, embed_calls |-> 0, chat_calls |-> 0, retrieved |-> {},
    before |-> before, after |-> after ]

\* background_tasks.add_task(FinetuneService.run_background_finetune,
\* request.jobId, [aggregated_jsonl_blob])
BackgroundTask(job_id, jsonl_blob_paths) ==
  [ job_id |-> job_id, jsonl_blob_paths |-> jsonl_blob_paths ]

\* settings.DEFAULT_FINETUNE_MODEL
DEFAULT_FINETUNE_MODEL == <<"default">>

\* A variant that submits every job with the default model.
ProviderJobDefault(training_file, model) ==
  [ training_file |-> training_file, model |-> DEFAULT_FINETUNE_MODEL,
    status |-> "running", fine_tuned_model |-> None ]

\* The fine-tuning job the provider creates on fine_tuning.jobs.create.
ProviderJob(training_file, model) ==
  [ training_file |-> training_file, model |-> model,
    status |-> "running", fine_tuned_model |-> None ]

\* The except branch of the combine-upload-submit sequence:
\* job.status = f"failed: {str(e)}" and db.commit().  After a commit that
\* failed the session's transaction is inactive until rollback() is called,
\* which the branch does not do: its own commit raises and the status in
\* the database stays what it was.
FailureStatus(status, error) ==
  IF error \in {"commit_model", "commit_job"} THEN status ELSE <<"failed", error>>

\* A variant that marks the job before the FineTunedModel row is committed.
StatusAfterSequenceEarly(status, error) ==
  IF error \in {"", "commit_model"} THEN <<"finetune in progress">>
  ELSE FailureStatus(status, error)

\* Job.status after the combine-upload-submit sequence:
\* `finetune in progress` once every step up to the commit of the
\* FineTunedModel row has succeeded, the except branch otherwise.
StatusAfterSequence(status, error) ==
  IF error = "" THEN <<"finetune in progress">> ELSE FailureStatus(status, error)

\* A variant of the finally clause that leaves the combined file in place.
FinallyKeep(st, combined_jsonl_path) == st

\* The finally clause of the combine-upload-submit sequence:
\* `if os.path.exists(combined_jsonl_path): os.remove(combined_jsonl_path)`.
Finally(st, combined_jsonl_path) == Remove(st, combined_jsonl_path)

\* `if not agg_doc or not agg_doc.jsonl_blob_path` of both entry points.
ArtifactMissing(agg) == agg = 0 \/ Falsy(documents[agg].jsonl_blob_path)

\* FinetuneService.queue_background_finetune, a whole call: the test of the
\* aggregated Document, finetune_requested, `finetune pending`,
\* finetune_queued.
QueueBackgroundFinetune ==
  /\ FinetuneRequests < MaxRequests
  /\ \E job_id \in JobIds, F \in FaultSets({"log", "commit_job"}, TRUE) :
       LET agg == FirstAggregated(job_id)
           before == Snapshot(job_id, jobs, models, logs, provider)
           logs1 == log_job_activity(logs, job_id, "finetune_requested", <<>>, "log" \in F)
           jobs1 == [jobs EXCEPT ![job_id].status = <<"finetune pending">>]
           logs2 == log_job_activity(logs1, job_id, "finetune_queued", <<>>, "log" \in F)
       IN  /\ faults' = faults + Cardinality(F)
           /\ IF ArtifactMissing(agg)
              THEN /\ UNCHANGED <<jobs, logs, logcall, tasks>>
                   /\ resp' = FinetuneReply("queue_background_finetune", job_id, "raised",
                                            "artifact", before, before)
              ELSE IF "commit_job" \in F
              THEN /\ jobs' = jobs
                   /\ tasks' = tasks
                   /\ logs' = logs1
                   /\ logcall' = LogCall(job_id, "finetune_requested", "log" \in F,
                                         Tables(jobs, documents, models))
                   /\ resp' = FinetuneReply("queue_background_finetune", job_id, "raised",
                                            "commit_job", before,
                                            Snapshot(job_id, jobs, models, logs1, provider))
              ELSE /\ jobs' = jobs1
                   /\ logs' = logs2
                   /\ logcall' = LogCall(job_id, "finetune_queued", "log" \in F,
                                         Tables(jobs1, documents, models))
                   \* the router adds run_background_finetune to the background tasks
                   /\ tasks' = Append(tasks, BackgroundTask(job_id,
                                         <<documents[agg].jsonl_blob_path>>))
                   /\ resp' = FinetuneReply("queue_background_finetune", job_id, "ok", "",
                                            before,
                                            Snapshot(job_id, jobs1, models, logs2, provider))
  /\ UNCHANGED <<remote, documents, models, blobs, files, dirs, calls>>
  /\ UNCHANGED <<clock, provider, generator, fn, containers, puts>>

TriggerPoints == { "log", "get_jsonl", "files_create", "jobs_create", "commit_model" }

\* FinetuneService.finetune_job_with_model, a whole call, _trigger_finetune
\* included: finetune_requested, the test of the aggregated Document, the
\* combined file, the provider's files.create and fine_tuning.jobs.create,
\* the FineTunedModel row, `finetune in progress`, finetune_queued; on a
\* failure inside _trigger_finetune `failed: ...` and the exception.  The
\* entry of a job that does not exist is written or refused, as the database
\* enforces the foreign key or not.
FinetuneJobWithModel ==
  /\ FinetuneRequests < MaxRequests
  /\ \E job_id \in JobIds, model \in ModelNames, F \in FaultSets(TriggerPoints, TRUE),
        fk \in BOOLEAN :
       LET op == "finetune_job_with_model"
           agg == FirstAggregated(job_id)
           before == Snapshot(job_id, jobs, models, logs, provider)
           refused == "log" \in F \/ (job_id \notin DOMAIN jobs /\ fk)
           logs1 == log_job_activity(logs, job_id, "finetune_requested", model, refused)
           \* _trigger_finetune
           jsonl_blob == documents[agg].jsonl_blob_path
           combined == CombinedPath(job_id)
           st0 == Store(blobs, files)
           st1 == Store(blobs, (combined :> <<>>) @@ files)
           get_ok == ~GetRaises(st1, jsonl_blob, <<"artifacts">>) /\ "get_jsonl" \notin F
           st2 == Get(st1, jsonl_blob, <<"artifacts">>)
           local_path == GetPath(jsonl_blob, <<"artifacts">>)
           content == st2.files[local_path] \o <<"\n">>
           st3 == Remove(st2, local_path)
           uploaded == get_ok /\ "files_create" \notin F
           started == uploaded /\ "jobs_create" \notin F
           recorded == started /\ "commit_model" \notin F
           provider1 == IF uploaded
                        THEN [provider EXCEPT !.files = @ + 1] ELSE provider
           openai_job_id == <<"ftjob", ToString(Len(provider.jobs) + 1)>>
           provider2 == IF started
                        THEN [provider1 EXCEPT !.jobs =
                                Append(@, ProviderJob(content, model))]
                        ELSE provider1
           models1 == IF recorded
                      THEN Append(models, FineTunedModelRow(job_id, openai_job_id))
                      ELSE models
           error == IF ~get_ok THEN "get_jsonl"
                    ELSE IF ~uploaded THEN "files_create"
                    ELSE IF ~started THEN "jobs_create"
                    ELSE IF ~recorded THEN "commit_model"
                    ELSE ""
           \* the finally clause removes the combined file
           st_end == Finally(IF get_ok THEN st3 ELSE st1, combined)
           jobs1 == [jobs EXCEPT ![job_id].status = StatusAfterSequence(@, error)]
           logs2 == IF error = ""
                    THEN log_job_activity(logs1, job_id, "finetune_queued", model,
                                          "log" \in F)
                    ELSE logs1
       IN  /\ fk \/ job_id \notin DOMAIN jobs
           /\ faults' = faults + Cardinality(F)
           /\ IF ArtifactMissing(agg)
              THEN /\ logs' = logs1
                   /\ logcall' = LogCall(job_id, "finetune_requested", refused,
                                         Tables(jobs, documents, models))
                   /\ UNCHANGED <<jobs, models, blobs, files, provider>>
                   /\ resp' = FinetuneReply(op, job_id, "raised", "artifact", before,
                                            Snapshot(job_id, jobs, models, logs1, provider))
              ELSE /\ logs' = logs2
                   /\ jobs' = jobs1
                   /\ models' = models1
                   /\ provider' = provider2
                   /\ blobs' = st_end.blobs
                   /\ files' = st_end.files
                   /\ logcall' = IF error = ""
                                 THEN LogCall(job_id, "finetune_queued", "log" \in F,
                                              Tables(jobs1, documents, models1))
                                 ELSE LogCall(job_id, "finetune_requested", "log" \in F,
                                              Tables(jobs, documents, models))
                   /\ resp' = FinetuneReply(op, job_id,
                                            IF error = "" THEN "ok" ELSE "raised", error,
                                            before,
                                            Snapshot(job_id, jobs1, models1, logs2, provider2))
  /\ UNCHANGED <<remote, documents, dirs, calls>>
  /\ UNCHANGED <<clock, generator, fn, tasks, containers, puts>>

RunPoints == { "get_jsonl", "files_create", "jobs_create", "commit_model", "commit_job" }

\* FinetuneService.run_background_finetune, a whole background task, on a
\* session of its own: the combined file, the provider's files.create and
\* fine_tuning.jobs.create with the default model, the FineTunedModel row,
\* `finetune in progress`; on a failure `failed: ...` and the exception; the
\* combined file is removed in the finally clause.  The router passes one
\* blob path.
RunBackgroundFinetune ==
  /\ tasks # <<>>
  /\ \E t \in DOMAIN tasks, F \in FaultSets(RunPoints, TRUE) :
       LET op == "run_background_finetune"
           job_id == tasks[t].job_id
           jsonl_blob == tasks[t].jsonl_blob_paths[1]
           before == Snapshot(job_id, jobs, models, logs, provider)
           combined == CombinedPath(job_id)
           st1 == Store(blobs, (combined :> <<>>) @@ files)
           get_ok == ~GetRaises(st1, jsonl_blob, <<"artifacts">>) /\ "get_jsonl" \notin F
           st2 == Get(st1, jsonl_blob, <<"artifacts">>)
           local_path == GetPath(jsonl_blob, <<"artifacts">>)
           content == st2.files[local_path] \o <<"\n">>
           st3 == Remove(st2, local_path)
           uploaded == get_ok /\ "files_create" \notin F
           started == uploaded /\ "jobs_create" \notin F
           recorded == started /\ "commit_model" \notin F
           marked == recorded /\ "commit_job" \notin F
           provider1 == IF uploaded
                        THEN [provider EXCEPT !.files = @ + 1] ELSE provider
           openai_job_id == <<"ftjob", ToString(Len(provider.jobs) + 1)>>
           provider2 == IF started
                        THEN [provider1 EXCEPT !.jobs =
                                Append(@, ProviderJob(content, DEFAULT_FINETUNE_MODEL))]
                        ELSE provider1
           models1 == IF recorded
                      THEN Append(models, FineTunedModelRow(job_id, openai_job_id))
                      ELSE models
           error == IF ~get_ok THEN "get_jsonl"
                    ELSE IF ~uploaded THEN "files_create"
                    ELSE IF ~started THEN "jobs_create"
                    ELSE IF ~recorded THEN "commit_model"
                    ELSE IF ~marked THEN "commit_job"
                    ELSE ""
           st_end == Finally(IF get_ok THEN st3 ELSE st1, combined)
           jobs1 == [jobs EXCEPT ![job_id].status = StatusAfterSequence(@, error)]
       IN  /\ faults' = faults + Cardinality(F)
           /\ tasks' = SubSeq(tasks, 1, t - 1) \o SubSeq(tasks, t + 1, Len(tasks))
           /\ IF job_id \notin DOMAIN jobs
              THEN /\ UNCHANGED <<jobs, models, provider, blobs, files>>
                   /\ resp' = FinetuneReply(op, job_id, "raised", "job", before, before)
              ELSE /\ jobs' = jobs1
                   /\ models' = models1
                   /\ provider' = provider2
                   /\ blobs' = st_end.blobs
                   /\ files' = st_end.files
                   /\ resp' = FinetuneReply(op, job_id,
                                            IF error = "" THEN "ok" ELSE "raised", error,
                                            before,
                                            Snapshot(job_id, jobs1, models1, logs, provider2))
  /\ UNCHANGED <<remote, documents, logs, dirs, calls>>
  /\ UNCHANGED <<clock, logcall, generator, fn, containers, puts>>

\* ------------------------------------------------------- fine-tune status
\* The provider finishes a fine-tuning job: it succeeds, with the handle of
\* the model it produced, or it fails.
ProviderAdvance ==
  /\ \E k \in DOMAIN provider.jobs, status \in {"succeeded", "failed"} :
       /\ provider.jobs[k].status = "running"
       /\ provider' = [provider EXCEPT
                         !.jobs[k].status = status,
                         !.jobs[k].fine_tuned_model =
                            IF status = "succeeded" THEN <<"ft", ToString(k)>> ELSE None]
  /\ resp' = NoResp
  /\ UNCHANGED <<remote, jobs, documents, models, logs, blobs, files, dirs, calls>>
  /\ UNCHANGED <<faults, clock, logcall, generator, fn, tasks, containers, puts>>

\* client.fine_tuning.jobs.retrieve(openai_job_id): the position of the
\* job at the provider.
Retrieve(openai_job_id) ==
  CHOOSE k \in DOMAIN provider.jobs : <<"ftjob", ToString(k)>> = openai_job_id

\* f"finetune_{new_status}"
StatusEvent(new_status) == "finetune_" \o new_status

\* f"Finetune job status updated to '{new_status}'"
TransitionMessage(new_status) == <<"Finetune job status updated to", new_status>>

\* The entries check_finetune_status has written so far.
PollEntries ==
  Cardinality({ i \in DOMAIN logs :
                  logs[i].event_type \in { StatusEvent(st) :
                                             st \in {"running", "succeeded", "failed"} } })

\* query(FineTunedModel).filter(FineTunedModel.job_id == job_id).first():
\* the query has no ORDER BY, so which of the rows of the job comes first is
\* up to the database; 0 stands for no row.
FirstModels(job_id) ==
  LET rows == { i \in DOMAIN models : models[i].job_id = job_id }
  IN  IF rows = {} THEN {0} ELSE rows

\* `if not ft_model or not ft_model.openai_job_id`
NotRun(ft_model) == ft_model = 0 \/ Falsy(models[ft_model].openai_job_id)

\* A variant that asks the provider before it looks at the row.
RetrieveCallsEager(not_run, F) == IF "retrieve" \in F THEN 0 ELSE 1

\* The fine_tuning.jobs.retrieve calls of one check_finetune_status call that
\* the provider answered.
RetrieveCalls(not_run, F) == IF not_run \/ "retrieve" \in F THEN 0 ELSE 1

\* A variant that takes every answer of the provider for a change.
StatusChangedAlways(status, new_status) == TRUE

\* `if job.status != new_status`
StatusChanged(status, new_status) == status # <<new_status>>

\* `new_status == "succeeded" and (not ft_model.openai_model_id or
\* ft_model.openai_model_id != fine_tuned_model_id)`
ModelIdStale(new_status, openai_model_id, fine_tuned_model_id) ==
  /\ new_status = "succeeded"
  /\ (Falsy(openai_model_id) \/ openai_model_id # fine_tuned_model_id)

\* The outcome of check_finetune_status: the row it looked at, the status
\* it reports, the provider calls it made, the calls that failed, and the
\* snapshots around it.
PollReply(job_id, outcome, detail, row, reported, retrieve_calls, failed, before, after) ==
  [ op |-> "check_finetune_status", job_id |-> job_id, mode |-> "",
    outcome |-> outcome, detail |-> detail, embed_calls |-> 0, chat_calls |-> 0,
    retrieved |-> {}, row |-> row, reported |-> reported,
    retrieve_calls |-> retrieve_calls, failed |-> failed,
    before |-> before, after |-> after ]

PollPoints == { "retrieve", "log_status", "commit_status", "log_model", "commit_model" }

\* FinetuneService.check_finetune_status, a whole call: the job, its
\* FineTunedModel row, the status at the provider, the transition entry and
\* the new Job.status, the finetune_succeeded entry and the model id.
CheckFinetuneStatus ==
  /\ PollEntries < MaxPollEntries
  /\ \E job_id \in JobIds, F \in FaultSets(PollPoints, TRUE) :
     \E ft_model \in FirstModels(job_id) :
       LET before == Snapshot(job_id, jobs, models, logs, provider)
           not_run == NotRun(ft_model)
           calls_made == RetrieveCalls(not_run, F)
           status_resp == provider.jobs[Retrieve(models[ft_model].openai_job_id)]
           new_status == status_resp.status
           changed == StatusChanged(jobs[job_id].status, new_status)
           logs1 == IF changed
                    THEN log_job_activity(logs, job_id, StatusEvent(new_status),
                                          TransitionMessage(new_status), "log_status" \in F)
                    ELSE logs
           status_raises == changed /\ "commit_status" \in F
           jobs1 == IF changed /\ ~status_raises
                    THEN [jobs EXCEPT ![job_id].status = <<new_status>>] ELSE jobs
           fine_tuned_model_id == status_resp.fine_tuned_model
           stale == /\ ~status_raises
                    /\ ModelIdStale(new_status, models[ft_model].openai_model_id,
                                    fine_tuned_model_id)
           \* only a call that is made can fail
           made == IF job_id \notin DOMAIN jobs \/ not_run THEN {}
                   ELSE {"retrieve"}
                        \cup (IF changed THEN {"log_status", "commit_status"} ELSE {})
                        \cup (IF stale THEN {"log_model", "commit_model"} ELSE {})
           logs2 == IF stale
                    THEN log_job_activity(logs1, job_id, "finetune_succeeded",
                                          <<"Finetune job succeeded">>, "log_model" \in F)
                    ELSE logs1
           model_raises == stale /\ "commit_model" \in F
           models1 == IF stale /\ ~model_raises
                      THEN [models EXCEPT ![ft_model].openai_model_id = fine_tuned_model_id]
                      ELSE models
           error == IF status_raises THEN "commit_status"
                    ELSE IF model_raises THEN "commit_model" ELSE ""
       IN  /\ F \subseteq made
           /\ faults' = faults + Cardinality(F)
           /\ IF job_id \notin DOMAIN jobs
              THEN /\ UNCHANGED <<jobs, models, logs, logcall>>
                   /\ resp' = PollReply(job_id, "raised", "404", 0, "", 0, F,
                                        before, before)
              ELSE IF not_run
              THEN /\ UNCHANGED <<jobs, models, logs, logcall>>
                   /\ resp' = PollReply(job_id, "ok", "not_run", ft_model, "not_run",
                                        calls_made, F, before, before)
              ELSE IF "retrieve" \in F
              THEN /\ UNCHANGED <<jobs, models, logs, logcall>>
                   /\ resp' = PollReply(job_id, "raised", "retrieve", ft_model, "",
                                        calls_made, F, before, before)
              ELSE /\ jobs' = jobs1
                   /\ models' = models1
                   /\ logs' = logs2
                   /\ logcall' =
                        IF stale
                        THEN LogCall(job_id, "finetune_succeeded", "log_model" \in F,
                                     Tables(jobs1, documents, models))
                        ELSE IF changed
                        THEN LogCall(job_id, StatusEvent(new_status), "log_status" \in F,
                                     Tables(jobs, documents, models))
                        ELSE logcall
                   /\ resp' = PollReply(job_id, IF error = "" THEN "ok" ELSE "raised",
                                        error, ft_model, new_status, calls_made, F,
                                        before,
                                        Snapshot(job_id, jobs1, models1, logs2, provider))
  /\ UNCHANGED <<remote, documents, blobs, files, dirs, calls>>
  /\ UNCHANGED <<clock, provider, generator, fn, tasks, containers, puts>>

\* ---------------------------------------------- blob storage, step by step
\* The arguments of the upload_to_blob_async calls under study.
PutNames == { <<>>, <<"a">>, <<"b">> }
PutContainers == { <<"artifacts">>, <<"documents">> }

\* One upload_to_blob_async call: its arguments, where it stands, whether
\* get_container_properties raised ResourceNotFoundError, and how it ended.
PutRec(data, blob_name, container, pc, missing, outcome, error) ==
  [ data |-> data, blob_name |-> blob_name, container |-> container, pc |-> pc,
    missing |-> missing, outcome |-> outcome, error |-> error ]

\* upload_to_blob_async up to its first await: the arguments are checked;
\* the local fallback writes the file and returns.
PutStart ==
  /\ Len(puts) < MaxPuts
  /\ \E blob_name \in PutNames, container \in PutContainers :
       LET data == <<"x">>
           st == Put(Store(blobs, files), data, blob_name, container)
       IN  IF PutRaises(data, blob_name, container)
           THEN /\ puts' = Append(puts, PutRec(data, blob_name, container, "done",
                                               FALSE, "raised", "ValueError"))
                /\ UNCHANGED <<blobs, files>>
           ELSE IF remote
           THEN /\ puts' = Append(puts, PutRec(data, blob_name, container, "properties",
                                               FALSE, "running", ""))
                /\ UNCHANGED <<blobs, files>>
           ELSE /\ puts' = Append(puts, PutRec(data, blob_name, container, "done",
                                               FALSE, "ok", ""))
                /\ blobs' = st.blobs
                /\ files' = st.files
  /\ UNCHANGED <<remote, jobs, documents, models, logs, dirs, calls, containers>>
  /\ UNCHANGED <<faults, resp, clock, logcall, provider, generator, fn, tasks>>

\* _ensure_container_exists_async: `await
\* container_client.get_container_properties()`, which raises
\* ResourceNotFoundError when the container does not exist.
GetContainerProperties(p) ==
  /\ puts[p].pc = "properties"
  /\ puts' = [puts EXCEPT ![p].pc = IF puts[p].container \in containers
                                     THEN "upload" ELSE "create",
                           ![p].missing = puts[p].container \notin containers]
  /\ UNCHANGED <<remote, jobs, documents, models, logs, blobs, files, dirs, calls>>
  /\ UNCHANGED <<faults, resp, clock, logcall, provider, generator, fn, tasks, containers>>

\* `except ResourceNotFoundError: await container_client.create_container()`.
\* The service refuses to create a container that exists
\* (ResourceExistsError); raised inside the except clause, it is not caught
\* by the `except Exception` next to it, and upload_to_blob_async logs it
\* and raises it again.
CreateContainer(p) ==
  /\ puts[p].pc = "create"
  /\ IF puts[p].container \in containers
     THEN /\ puts' = [puts EXCEPT ![p].pc = "done", ![p].outcome = "raised",
                                  ![p].error = "ResourceExistsError"]
          /\ containers' = containers
     ELSE /\ puts' = [puts EXCEPT ![p].pc = "upload"]
          /\ containers' = containers \cup {puts[p].container}
  /\ UNCHANGED <<remote, jobs, documents, models, logs, blobs, files, dirs, calls>>
  /\ UNCHANGED <<faults, resp, clock, logcall, provider, generator, fn, tasks>>

\* `await blob_client.upload_blob(data, overwrite=True)` and the return of
\* the locator.
UploadBlob(p) ==
  /\ puts[p].pc = "upload"
  /\ puts' = [puts EXCEPT ![p].pc = "done", ![p].outcome = "ok"]
  /\ blobs' = Put(Store(blobs, files), puts[p].data, puts[p].blob_name,
                  puts[p].container).blobs
  /\ UNCHANGED <<remote, jobs, documents, models, logs, files, dirs, calls>>
  /\ UNCHANGED <<faults, resp, clock, logcall, provider, generator, fn, tasks, containers>>

\* ------------------------------------------- synthetic generator, in detail
\* `if len(lines) < 10`, min_examples=10, max_attempts=3 and the 50
\* characters of the fallback summary.
MinLines == 10
min_examples == 10
max_attempts_default == 3
SummaryLimit == 50

\* str.strip(): the text between its first and its last character that is
\* not whitespace.
Strip(str) ==
  LET inked == { i \in 1..Len(str) : ~IsSpace(str[i]) }
  IN  IF inked = {} THEN <<>>
      ELSE SubSeq(str, CHOOSE i \in inked : \A j \in inked : i <= j,
                       CHOOSE i \in inked : \A j \in inked : i >= j)

\* str.splitlines(): the text between consecutive line breaks; a final line
\* break opens no further line.
SplitLines(text) ==
  LET breaks == { i \in 1..Len(text) : text[i] = "\n" }
      n == Cardinality(breaks)
      Break(k) == IF k = 0 THEN 0
                  ELSE IF k = n + 1 THEN Len(text) + 1
                  ELSE CHOOSE i \in breaks : Cardinality({ j \in breaks : j < i }) = k - 1
      count == IF text = <<>> THEN 0
               ELSE IF text[Len(text)] = "\n" THEN n ELSE n + 1
  IN  [k \in 1..count |-> SubSeq(text, Break(k - 1) + 1, Break(k) - 1)]

\* [line for line in ... if line.strip()]
NonBlank(lines) == SelectSeq(lines, LAMBDA line : Strip(line) # <<>>)

\* The backquote character, and the three of them that open or close a fence.
Backquote == "bq"
Fence == <<Backquote, Backquote, Backquote>>

\* SyntheticDataGenerator._remove_markdown_fences
remove_markdown_fences(text) ==
  IF HasPrefix(text, Fence)
  THEN LET lines == SplitLines(text)
           opened == IF lines # <<>> /\ HasPrefix(Strip(lines[1]), Fence)
                     THEN Tail(lines) ELSE lines
           closed == IF opened # <<>> /\ Strip(opened[Len(opened)]) = Fence
                     THEN SubSeq(opened, 1, Len(opened) - 1) ELSE opened
       IN  JoinWith(<<"\n">>, closed)
  ELSE text

\* JSON values: an object with a messages array, a number, and the result of
\* a failed parse.
Message(role, content) == [role |-> role, content |-> content]
Object(messages) == [kind |-> "object", messages |-> messages]
Number == [kind |-> "number", messages |-> <<>>]
Invalid == [kind |-> "invalid", messages |-> <<>>]

\* A variant of the string escaping that leaves line breaks as they are.
EscapeNothing(str) == str

\* The backslash character.
Backslash == "bs"

\* The escaping json.dumps applies inside a string: a line break becomes the
\* two characters backslash and n.
Escape(str) ==
  Flatten([i \in 1..Len(str) |-> IF str[i] = "\n" THEN <<Backslash, "n">> ELSE <<str[i]>>])

\* json.dumps(obj): one line of text.
json_dumps(v) ==
  IF v.kind = "number" THEN <<"7">>
  ELSE <<"{">>
       \o Flatten([i \in 1..Len(v.messages) |->
             <<v.messages[i].role, ":">> \o Escape(v.messages[i].content) \o <<";">>])
       \o <<"}">>

\* The three fallback templates: the system prompt, and what precedes the
\* input text in the user turn and the summary in the assistant turn.
fallback_templates ==
  << [system |-> <<"X">>, user |-> <<"P">>, assistant |-> <<"B">>],
     [system |-> <<"Y">>, user |-> <<"W">>, assistant |-> <<"T">>],
     [system |-> <<"Z">>, user |-> <<"U">>, assistant |-> <<"I">>] >>

\* summary = input_text if len(input_text) <= 50 else input_text[:50] + "..."
Summary(input_text) ==
  IF Len(input_text) <= SummaryLimit THEN input_text
  ELSE SubSeq(input_text, 1, SummaryLimit) \o <<".", ".", ".">>

\* One template with {input_text} and {summary} filled in.
FilledTemplate(t, input_text) ==
  Object(<< Message("system", fallback_templates[t].system),
            Message("user", fallback_templates[t].user \o input_text),
            Message("assistant",
                    fallback_templates[t].assistant \o Summary(input_text) \o <<".">>) >>)

\* The templates random.choice picks for the min_examples lines: the same
\* one throughout, or each in turn.
TemplatePicks ==
  { [i \in 1..min_examples |-> t] : t \in 1..3 }
    \cup { [i \in 1..min_examples |-> (i % 3) + 1] }

\* SyntheticDataGenerator.generate_fallback_jsonl
generate_fallback_jsonl(input_text, picks) ==
  JoinWith(<<"\n">>,
           [i \in 1..min_examples |-> json_dumps(FilledTemplate(picks[i], input_text))])

\* The chunk lists handed to the generator.
GenChunks ==
  { << <<"a">> >>, << <<"a", " ">>, <<" ">>, <<"b">> >>, << <<" ">> >> }

\* The text every kept chunk is joined into, or the generic text.
GenericText == <<"G">>
InputText(chunks) ==
  LET kept == SelectSeq([i \in 1..Len(chunks) |-> Strip(chunks[i])],
                        LAMBDA ch : ch # <<>>)
      joined == IF Empty(chunks) THEN <<>> ELSE JoinWith(<<"\n">>, kept)
  IN  IF joined = <<>> THEN GenericText ELSE joined

\* An example as the model writes it.
LlmObject ==
  Object(<< Message("system", <<"X">>), Message("user", <<"q">>),
            Message("assistant", <<"r">>) >>)

\* The values a line of text can stand for.
JsonValues ==
  {LlmObject, Number}
    \cup { FilledTemplate(t, InputText(ch)) : t \in 1..3, ch \in GenChunks }

\* json.loads(line): the value whose text the line is, surrounding
\* whitespace ignored; Invalid for JSONDecodeError.
JsonTexts == [v \in JsonValues |-> json_dumps(v)]
json_loads(line) ==
  LET hits == { v \in JsonValues : JsonTexts[v] = Strip(line) }
  IN  IF hits = {} THEN Invalid ELSE CHOOSE v \in hits : TRUE

\* The contents message.content can have.
GoodLine == json_dumps(LlmObject)
Rep(line, n) == [i \in 1..n |-> line]
Responses ==
  { JoinWith(<<"\n">>, lines) : lines \in
      { Rep(GoodLine, MinLines),
        Rep(GoodLine, MinLines - 1),
        <<Fence \o <<"j">>>> \o Rep(GoodLine, MinLines) \o <<Fence>>,
        <<Fence>> \o Rep(GoodLine, MinLines) \o <<Fence, <<"o", "k">>>>,
        <<GoodLine, <<>>, <<" ">>>> \o Rep(GoodLine, MinLines - 2),
        <<<<" ">> \o GoodLine, <<"7">>, <<>>>> \o Rep(GoodLine, MinLines - 2) \o <<<<>>>>,
        Rep(GoodLine, MinLines - 1) \o <<<<"o", "o", "p", "s">>>>,
        <<<<"{">>>> \o Rep(GoodLine, MinLines),
        <<>> } }

\* A variant of the line count test that accepts every response.
TooFewLinesUnchecked(lines) == FALSE

\* `if len(lines) < 10`
TooFewLines(lines) == Len(lines) < MinLines

\* The non-blank lines of a response without its fences.
ResponseLines(raw_response) ==
  NonBlank(SplitLines(remove_markdown_fences(raw_response)))

\* The response passes validation: neither ValueError is raised.
Validates(raw_response) ==
  LET lines == ResponseLines(raw_response)
  IN  /\ ~TooFewLines(lines)
      /\ \A i \in 1..Len(lines) : json_loads(lines[i]) # Invalid

\* "\n".join(valid_lines), each line parsed and serialised again.
ValidJsonl(raw_response) ==
  LET lines == ResponseLines(raw_response)
  IN  JoinWith(<<"\n">>, [i \in 1..Len(lines) |-> json_dumps(json_loads(lines[i]))])

\* The validation of each content the provider can answer with: whether it
\* passes, and what is returned when it does.
Validation ==
  [ content \in Responses |->
      [ ok |-> Validates(Strip(content)), jsonl |-> ValidJsonl(Strip(content)) ] ]

\* A variant of the loop exit that allows one attempt more.
AttemptsExhaustedLate(attempts, max_attempts) == attempts > max_attempts

\* `if attempts >= max_attempts`
AttemptsExhausted(attempts, max_attempts) == attempts >= max_attempts

\* _log_response: best effort, and nothing without a job id.
LogResponse(st, job, text, primary, fails) ==
  LET name == <<"synthetic_logs", "job">> \o job
                \o <<IF primary THEN "raw_response.txt" ELSE "fallback_raw_response.txt">>
  IN  IF job = None \/ fails \/ PutRaises(text, name, <<"logs">>) THEN st
      ELSE Put(st, text, name, <<"logs">>)

\* The local variables of a generate_synthetic_jsonl invocation: `attempts`
\* as in the source, the provider calls made, the content of the last
\* response (None when the call raised), and what was returned.
GenRec(pc, chunks, max_attempts, job) ==
  [ pc |-> pc, chunks |-> chunks, max_attempts |-> max_attempts, job |-> job,
    attempts |-> 0, llm_calls |-> 0, raw |-> None, result |-> None,
    origin |-> "" ]

\* generate_synthetic_jsonl is entered.
GenerateStart ==
  /\ generator.pc = "idle"
  /\ \E chunks \in GenChunks, max_attempts \in 1..max_attempts_default,
        job \in {None, <<"1">>} :
       generator' = GenRec("running", chunks, max_attempts, job)
  /\ UNCHANGED <<remote, jobs, documents, models, logs, blobs, files, dirs, calls,
                 faults, resp, clock, logcall, provider, fn,
                 tasks, containers, puts>>

\* One pass of the while loop: the provider call, the validation of the
\* response, and after the last failed attempt the fallback.
GenerateAttempt ==
  /\ generator.pc = "running"
  /\ \E content \in Responses \cup {None},
        F \in FaultSets({"put_response_log"}, TRUE) :
       LET g == generator
           raised == content = None
           raw_response == Strip(content)
           st0 == Store(blobs, files)
           st1 == IF raised THEN st0
                  ELSE LogResponse(st0, g.job, raw_response, TRUE,
                                   "put_response_log" \in F)
           ok == ~raised /\ Validation[content].ok
           attempts == g.attempts + 1
           seen == [g EXCEPT !.llm_calls = g.llm_calls + 1,
                             !.raw = IF raised THEN None ELSE raw_response]
       IN  /\ faults' = faults + Cardinality(F)
           /\ IF ok
              THEN /\ generator' = [seen EXCEPT !.pc = "done", !.origin = "llm",
                                                !.result = Validation[content].jsonl]
                   /\ blobs' = st1.blobs /\ files' = st1.files
              ELSE IF AttemptsExhausted(attempts, g.max_attempts)
              THEN \E picks \in TemplatePicks :
                     LET fallback_output ==
                           generate_fallback_jsonl(InputText(g.chunks), picks)
                         st2 == LogResponse(st1, g.job, fallback_output, FALSE,
                                            "put_response_log" \in F)
                     IN  /\ generator' = [seen EXCEPT !.pc = "done",
                                                      !.origin = "fallback",
                                                      !.attempts = attempts,
                                                      !.result = fallback_output]
                         /\ blobs' = st2.blobs /\ files' = st2.files
              ELSE /\ generator' = [seen EXCEPT !.attempts = attempts]
                   /\ blobs' = st1.blobs /\ files' = st1.files
  /\ UNCHANGED <<remote, jobs, documents, models, logs, dirs, calls,
                 resp, clock, logcall, provider, fn,
                 tasks, containers, puts>>

\* ------------------------------------------------------------ direct calls
\* The texts of at most MaxTextLen characters over two letters, the blank
\* and the line break.
RECURSIVE TextsOfLen(_)
TextsOfLen(k) ==
  IF k = 0 THEN {<<>>}
  ELSE { Append(t, ch) : t \in TextsOfLen(k - 1), ch \in {"a", "b", " ", "\n"} }

Texts == UNION { TextsOfLen(k) : k \in 0..MaxTextLen }

\* DocumentParser.chunk_text(text, n) called with a positive n, once in a
\* behaviour: the function reads and writes nothing but its arguments.
ChunkText ==
  /\ fn.op = "none"
  /\ \E text \in Texts, n \in 1..MaxChunkSize :
       fn' = [op |-> "chunk_text", text |-> text, n |-> n,
              chunks |-> chunk_text(text, n)]
  /\ UNCHANGED <<remote, jobs, documents, models, logs, blobs, files, dirs, calls,
                 faults, resp, clock, logcall, provider, generator,
                 tasks, containers, puts>>

\* The chunk lists of a direct create_faiss_index call.
IndexInputs == { <<>>, << <<"a">> >>, << <<"a">>, <<"b", " ", "a">> >> }

\* RagService.create_faiss_index(chunks), the whole function: the early
\* return, one embedding call per chunk, the index file, and ValueError for
\* whatever fails in between (len(embeddings[0]) of no embedding included).
CreateFaissIndex ==
  /\ fn.op # "chunk_text"
  /\ \E chunks \in IndexInputs, ix \in IndexIds, F \in FaultSets({"embed"}, TRUE) :
       LET st0 == Store(blobs, files)
           early == NoChunks(chunks)
           raised == ~early /\ ("embed" \in F \/ Empty(chunks))
           st1 == IF early \/ raised THEN st0 ELSE create_faiss_index(st0, chunks, ix)
       IN  /\ faults' = faults + Cardinality(F)
           /\ files' = st1.files
           /\ fn' = [op |-> "create_faiss_index", chunks |-> chunks,
                     raised |-> raised,
                     faiss_index_path |-> IF early \/ raised THEN None ELSE IndexPath(ix),
                     chunks_json |-> IF early \/ raised THEN None ELSE JsonDumps(chunks),
                     embed_calls |-> IF early THEN 0
                                     ELSE IF "embed" \in F THEN 1 ELSE Len(chunks),
                     written |-> DOMAIN st1.files \ DOMAIN files]
  /\ UNCHANGED <<remote, jobs, documents, models, logs, blobs, dirs, calls,
                 resp, clock, logcall, provider, generator,
                 tasks, containers, puts>>

\* ------------------------------------------------- blob storage, direct calls
\* The blob names, data and locators of the direct adapter calls.
StoreNames == { <<"a">>, <<"a", "b">>, <<"artifacts", "a">> }
StoreData == { <<"x">>, <<"y">> }
StoreLocators == { PutPath(n, c) : n \in StoreNames, c \in PutContainers }

\* The local fallback of upload_to_blob_async cannot write the file:
\* os.makedirs(dirname, exist_ok=True) raises when a component of the
\* directory is a file, open(local_path, "wb") when local_path is a directory.
PutConflicts(st, blob_name) ==
  LET local_path == LOCAL_STORAGE_FOLDER \o blob_name
  IN  /\ ~remote
      /\ \/ \E k \in 1..(Len(local_path) - 1) :
              SubSeq(local_path, 1, k) \in DOMAIN st.files
         \/ \E q \in DOMAIN st.files :
              Len(q) > Len(local_path) /\ HasPrefix(q, local_path)

\* upload_to_blob_async(data, blob_name, container), a whole call: the
\* argument checks, the container made sure of, the blob or the file
\* written, the locator returned.
UploadToBlob ==
  /\ \E data \in StoreData, blob_name \in StoreNames, container \in PutContainers :
       LET st0 == Store(blobs, files)
           raised == PutRaises(data, blob_name, container) \/ PutConflicts(st0, blob_name)
           st1 == IF raised THEN st0 ELSE Put(st0, data, blob_name, container)
       IN  /\ blobs' = st1.blobs
           /\ files' = st1.files
           /\ containers' = IF remote /\ ~raised THEN containers \cup {container}
                             ELSE containers
           /\ fn' = [op |-> "upload_to_blob_async", data |-> data,
                     blob_name |-> blob_name, container |-> container,
                     raised |-> raised,
                     returned |-> IF raised THEN None ELSE PutPath(blob_name, container)]
  /\ UNCHANGED <<remote, jobs, documents, models, logs, dirs, calls, faults, resp>>
  /\ UNCHANGED <<clock, logcall, provider, generator, tasks, puts>>

\* download_from_blob_async(blob_path, container), a whole call.
DownloadFromBlob ==
  /\ \E blob_path \in StoreLocators, container \in PutContainers :
       LET st0 == Store(blobs, files)
           raised == GetRaises(st0, blob_path, container)
           st1 == IF raised THEN st0 ELSE Get(st0, blob_path, container)
           local_file_path == GetPath(blob_path, container)
       IN  /\ blobs' = st1.blobs
           /\ files' = st1.files
           /\ fn' = [op |-> "download_from_blob_async", blob_path |-> blob_path,
                     container |-> container, raised |-> raised,
                     local_file_path |-> IF raised THEN None ELSE local_file_path,
                     content |-> IF raised THEN None ELSE st1.files[local_file_path]]
  /\ UNCHANGED <<remote, jobs, documents, models, logs, dirs, calls, faults, resp>>
  /\ UNCHANGED <<clock, logcall, provider, generator, tasks, containers, puts>>

\* ------------------------------------------------------------ specification
\* No fine-tune submitted, no generator invocation, no direct call yet.
NoProvider == [files |-> 0, jobs |-> <<>>]
NoGen == GenRec("idle", <<>>, 0, None)
NoCall == [op |-> "none"]

Init ==
  /\ remote \in BOOLEAN
  /\ jobs = <<>>
  /\ documents = <<>>
  /\ models = <<>>
  /\ logs = <<>>
  /\ blobs = <<>>
  /\ files = <<>>
  /\ dirs = {}
  /\ calls = <<>>
  /\ faults = 0
  /\ resp = NoResp
  /\ clock = 0
  /\ logcall = NoLogCall
  /\ provider = NoProvider
  /\ generator = NoGen
  /\ fn = NoCall
  /\ tasks = <<>>
  /\ containers = {}
  /\ puts = <<>>

\* One upload_files invocation in an environment in which every external
\* call may fail.
Next ==
  \/ UploadStart(TRUE)
  \/ \E c \in DOMAIN calls : ProcessFile(c, TRUE)
  \/ \E c \in DOMAIN calls : CreateAggregated(c, TRUE)
  \/ \E c \in DOMAIN calls : FinalizeJob(c, TRUE)

Spec == Init /\ [][Next]_vars

\* One upload_files invocation whose external calls succeed, and chat and
\* evaluation requests, whose external calls may fail, arriving at any time.
QueryNext ==
  \/ UploadStart(FALSE)
  \/ \E c \in DOMAIN calls : ProcessFile(c, FALSE)
  \/ \E c \in DOMAIN calls : CreateAggregated(c, FALSE)
  \/ \E c \in DOMAIN calls : FinalizeJob(c, FALSE)
  \/ ChatByJob
  \/ EvaluateModel

QuerySpec == Init /\ [][QueryNext]_vars

\* One generate_synthetic_jsonl invocation against a provider that answers
\* anything or fails.
GenNext ==
  \/ GenerateStart
  \/ GenerateAttempt

GenSpec == Init /\ [][GenNext]_vars

\* One upload_files invocation whose external calls may fail, and retrieval
\* requests arriving at any time.
RagNext ==
  \/ UploadStart(TRUE)
  \/ \E c \in DOMAIN calls : ProcessFile(c, TRUE)
  \/ \E c \in DOMAIN calls : CreateAggregated(c, TRUE)
  \/ \E c \in DOMAIN calls : FinalizeJob(c, TRUE)
  \/ RagQuery
  \/ RagQueryByJob

RagSpec == Init /\ [][RagNext]_vars

\* One upload_files invocation whose external calls succeed, the database
\* clock, and listings of the activity log requested at any time.
LogNext ==
  \/ UploadStart(FALSE)
  \/ \E c \in DOMAIN calls : ProcessFile(c, FALSE)
  \/ \E c \in DOMAIN calls : CreateAggregated(c, FALSE)
  \/ \E c \in DOMAIN calls : FinalizeJob(c, FALSE)
  \/ Tick
  \/ GetJobLogs

LogSpec == Init /\ [][LogNext]_vars

\* upload_files is between the commit of the aggregated Document and the end
\* of _finalize_job: no call in between suspends the task, so no other
\* request runs there.
Finalizing == \E c \in DOMAIN calls : calls[c].pc = "finalize"

\* One upload_files invocation whose external calls succeed, and fine-tune
\* requests, whose external calls may fail, arriving at any suspension point.
FinetuneNext ==
  \/ UploadStart(FALSE)
  \/ \E c \in DOMAIN calls : ProcessFile(c, FALSE)
  \/ \E c \in DOMAIN calls : CreateAggregated(c, FALSE)
  \/ \E c \in DOMAIN calls : FinalizeJob(c, FALSE)
  \/ ~Finalizing /\ QueueBackgroundFinetune
  \/ ~Finalizing /\ FinetuneJobWithModel

FinetuneSpec == Init /\ [][FinetuneNext]_vars

\* The batches uploaded before fine-tuning is studied: one file with a
\* word, or one file of whitespace (no aggregated JSONL).
TuneBatches ==
  { <<f>> : f \in { g \in Files : g.filename \in {"one.txt", "blank.txt"} } }

\* One upload_files invocation of such a batch whose external calls succeed,
\* and fine-tune requests and background tasks, whose external calls may
\* fail, at any suspension point.
TuneNext ==
  \/ UploadStart(FALSE) /\ calls'[1].batch \in TuneBatches
  \/ \E c \in DOMAIN calls : ProcessFile(c, FALSE)
  \/ \E c \in DOMAIN calls : CreateAggregated(c, FALSE)
  \/ \E c \in DOMAIN calls : FinalizeJob(c, FALSE)
  \/ ~Finalizing /\ QueueBackgroundFinetune
  \/ ~Finalizing /\ FinetuneJobWithModel
  \/ ~Finalizing /\ RunBackgroundFinetune

TuneSpec == Init /\ [][TuneNext]_vars

\* upload_files has returned.
UploadDone == calls # <<>> /\ calls[1].pc = "done"

\* One upload_files invocation of such a batch whose external calls succeed;
\* once it has returned, immediate fine-tune requests whose external calls
\* succeed, the provider finishing jobs, and status checks, whose external
\* calls may fail.
PollNext ==
  \/ UploadStart(FALSE) /\ calls'[1].batch \in TuneBatches
  \/ \E c \in DOMAIN calls : ProcessFile(c, FALSE)
  \/ \E c \in DOMAIN calls : CreateAggregated(c, FALSE)
  \/ \E c \in DOMAIN calls : FinalizeJob(c, FALSE)
  \/ UploadDone /\ FinetuneJobWithModel /\ faults' = faults
  \/ ProviderAdvance
  \/ UploadDone /\ CheckFinetuneStatus

PollSpec == Init /\ [][PollNext]_vars

\* The request of this step is for a job that exists and none of its
\* external calls fails.
Served == resp'.job_id \in DOMAIN jobs /\ faults' = faults

\* One upload_files invocation of such a batch whose external calls succeed;
\* once it has returned, fine-tune requests on both paths, background tasks
\* whose external calls may fail, the provider finishing jobs, and status
\* checks, in any order.
StatusNext ==
  \/ UploadStart(FALSE) /\ calls'[1].batch \in TuneBatches
  \/ \E c \in DOMAIN calls : ProcessFile(c, FALSE)
  \/ \E c \in DOMAIN calls : CreateAggregated(c, FALSE)
  \/ \E c \in DOMAIN calls : FinalizeJob(c, FALSE)
  \/ UploadDone /\ QueueBackgroundFinetune /\ Served
  \/ UploadDone /\ FinetuneJobWithModel /\ Served
  \/ UploadDone /\ RunBackgroundFinetune
  \/ ProviderAdvance
  \/ UploadDone /\ CheckFinetuneStatus /\ Served

StatusSpec == Init /\ [][StatusNext]_vars

\* What a router returns for the outcome of its service call: the result
\* with success=true, and for any exception success=false with data null.
APIResponse(r) ==
  [ success |-> r.outcome = "ok",
    data |-> IF r.outcome = "ok" THEN <<"data">> ELSE None ]

\* One upload_files invocation of such a batch whose external calls succeed,
\* and chat, evaluation, log, fine-tune status and immediate fine-tune
\* requests, for jobs that exist or not, at any suspension point.
RouterNext ==
  \/ UploadStart(FALSE) /\ calls'[1].batch \in TuneBatches
  \/ \E c \in DOMAIN calls : ProcessFile(c, FALSE)
  \/ \E c \in DOMAIN calls : CreateAggregated(c, FALSE)
  \/ \E c \in DOMAIN calls : FinalizeJob(c, FALSE)
  \/ ~Finalizing /\ ChatByJob
  \/ ~Finalizing /\ EvaluateModel
  \/ ~Finalizing /\ GetJobLogs
  \/ ~Finalizing /\ CheckFinetuneStatus
  \/ ~Finalizing /\ FinetuneJobWithModel

RouterSpec == Init /\ [][RouterNext]_vars

\* Concurrent upload_to_blob_async calls on a storage account without
\* containers.
ContainerNext ==
  \/ PutStart
  \/ \E p \in DOMAIN puts : GetContainerProperties(p)
  \/ \E p \in DOMAIN puts : CreateContainer(p)
  \/ \E p \in DOMAIN puts : UploadBlob(p)

ContainerSpec == Init /\ [][ContainerNext]_vars

\* Concurrent upload_files invocations whose external calls succeed,
\* interleaved at their suspension points.
ConcurrentNext ==
  \/ ConcurrentStart
  \/ \E c \in DOMAIN calls : StoreOriginal(c)
  \/ \E c \in DOMAIN calls : FetchOriginal(c)
  \/ \E c \in DOMAIN calls : LogRawResponse(c)
  \/ \E c \in DOMAIN calls : PutJsonl(c)
  \/ \E c \in DOMAIN calls : PutIndex(c)
  \/ \E c \in DOMAIN calls : PutChunks(c)
  \/ \E c \in DOMAIN calls : FinalizeJob(c, FALSE)

ConcurrentSpec == Init /\ [][ConcurrentNext]_vars

\* Direct calls of the object store adapter.
StoreNext ==
  \/ UploadToBlob
  \/ DownloadFromBlob

StoreSpec == Init /\ [][StoreNext]_vars

\* Direct calls of the chunker and of the index builder.
FnNext ==
  \/ ChunkText
  \/ CreateFaissIndex

FnSpec == Init /\ [][FnNext]_vars


\* ------------------------------------------------------------------ claims
Status(job_id) == jobs[job_id].status

\* The ids of the per-file and of the aggregated Document rows of a job.
FileDocs(job_id) ==
  { d \in DOMAIN documents : documents[d].job_id = job_id /\ ~documents[d].is_aggregated }
AggDocs(job_id) ==
  { d \in DOMAIN documents : documents[d].job_id = job_id /\ documents[d].is_aggregated }

\* What download_from_blob_async and a read of the local file give for a
\* locator upload_to_blob_async returned.
Stored(path) == IF remote THEN blobs[path] ELSE files[path]

\* The invocation has left upload_files.
Ended(c) == calls[c].pc = "done"

\* The invocation left upload_files because processing of a file raised.
FileRaised(c) == Ended(c) /\ calls[c].outcome = "http500"

\* C1: when processing of file k > 1 of a batch raises, then once upload_files
\* has ended no Document row exists for any file of the batch and the job is
\* not `completed`.
C1_AllOrNothing ==
  \A c \in DOMAIN calls :
    (FileRaised(c) /\ Len(calls[c].batch) >= 2 /\ calls[c].failed_at > 1)
      => /\ FileDocs(calls[c].job) = {}
         /\ Status(calls[c].job) # <<"completed">>

\* C2: when processing of a file raises, then once upload_files has ended the
\* job's status is `failed: <reason>`, never still `pending`.
C2_FailedStatus ==
  \A c \in DOMAIN calls :
    FileRaised(c)
      => /\ Status(calls[c].job)[1] = "failed"
         /\ Status(calls[c].job) # <<"pending">>

\* C3: a job whose status is `completed` has document_count = file_count =
\* the number of its non-aggregated Document rows, and completed_at set; a
\* job not yet completed is `pending` with completed_at null.
C3_CompletedCounts ==
  \A j \in DOMAIN jobs :
    IF Status(j) = <<"completed">>
    THEN /\ jobs[j].document_count = jobs[j].file_count
         /\ jobs[j].document_count = Cardinality(FileDocs(j))
         /\ jobs[j].completed_at # None
    ELSE /\ Status(j) = <<"pending">>
         /\ jobs[j].completed_at = None

\* A job of two files has been completed.
C3_Witness ==
  \E j \in DOMAIN jobs : Status(j) = <<"completed">> /\ jobs[j].file_count >= 2

\* C4: every job has at most one aggregated Document, a completed job has
\* exactly one, and every aggregated Document has an empty blob_path and
\* file_type `aggregated`.
C4_OneAggregated ==
  /\ \A j \in DOMAIN jobs :
       /\ Cardinality(AggDocs(j)) <= 1
       /\ Status(j) = <<"completed">> => Cardinality(AggDocs(j)) = 1
  /\ \A d \in DOMAIN documents :
       documents[d].is_aggregated
         => documents[d].blob_path = <<>> /\ documents[d].file_type = "aggregated"

\* A completed job with its aggregated Document and a per-file Document.
C4_Witness ==
  \E j \in DOMAIN jobs :
    Status(j) = <<"completed">> /\ AggDocs(j) # {} /\ FileDocs(j) # {}

\* What the parser returned for the files of an invocation, in submission
\* order: the chunk lists, and the JSONL strings of the files that have one.
YieldedChunks(c) == [i \in DOMAIN calls[c].yields |-> calls[c].yields[i].chunks]
YieldedJsonl(c) ==
  LET ys == calls[c].yields
      F[i \in 0..Len(ys)] ==
        IF i = 0 THEN <<>>
        ELSE IF ys[i].jsonl = None THEN F[i - 1] ELSE Append(F[i - 1], ys[i].jsonl)
  IN  F[Len(ys)]

RECURSIVE SumLen(_)
SumLen(ss) == IF ss = <<>> THEN 0 ELSE Len(Head(ss)) + SumLen(Tail(ss))

\* The aggregated Document row of the job of an invocation that returned.
AggOf(c) == documents[CHOOSE d \in AggDocs(calls[c].job) : TRUE]

\* C5: after a successful upload the aggregated chunk artifact, downloaded
\* and parsed, is the concatenation of the per-file chunk lists in submission
\* order, and the aggregated JSONL is the newline-join of the per-file JSONL
\* strings in that order; without chunks (JSONL) there is no such artifact.
C5_Aggregation ==
  \A c \in DOMAIN calls :
    calls[c].outcome = "returned"
      => /\ AggDocs(calls[c].job) # {}
         /\ IF Empty(Flatten(YieldedChunks(c)))
            THEN AggOf(c).chunks_blob_path = None
            ELSE /\ AggOf(c).chunks_blob_path # None
                 /\ JsonLoads(Stored(AggOf(c).chunks_blob_path))
                      = Flatten(YieldedChunks(c))
                 /\ Len(JsonLoads(Stored(AggOf(c).chunks_blob_path)))
                      = SumLen(YieldedChunks(c))
         /\ IF Empty(YieldedJsonl(c))
            THEN AggOf(c).jsonl_blob_path = None
            ELSE /\ AggOf(c).jsonl_blob_path # None
                 /\ Stored(AggOf(c).jsonl_blob_path)
                      = JoinWith(<<"\n">>, YieldedJsonl(c))

\* A successful upload of two files with different, non-empty chunk lists,
\* one of them of several chunks.
C5_Witness ==
  \E c \in DOMAIN calls :
    /\ calls[c].outcome = "returned"
    /\ Len(calls[c].yields) = 2
    /\ Len(calls[c].yields[1].chunks) >= 2
    /\ Len(calls[c].yields[2].chunks) >= 1
    /\ calls[c].yields[1].chunks # calls[c].yields[2].chunks

\* C6: upload_files called with an empty list raises and leaves no Job row,
\* Document row, activity-log entry, stored object or job folder.
C6_EmptyUpload ==
  \A c \in DOMAIN calls :
    Empty(calls[c].batch)
      => /\ calls[c].outcome = "http400"
         /\ jobs = <<>> /\ documents = <<>> /\ logs = <<>>
         /\ DOMAIN blobs = {} /\ DOMAIN files = {} /\ dirs = {}

\* upload_files has been called with an empty list.
C6_Witness == \E c \in DOMAIN calls : Empty(calls[c].batch) /\ Ended(c)

\* C7: when a file's media type is outside the parser's dispatch table, the
\* upload has created no Job row, no activity-log entry and no stored object.
C7_UnsupportedType ==
  \A c \in DOMAIN calls :
    (Ended(c) /\ calls[c].error = "unsupported_type")
      => /\ jobs = <<>>
         /\ logs = <<>>
         /\ DOMAIN blobs = {} /\ DOMAIN files = {}

\* C8: a failure while building or uploading a file's vector index is fatal
\* to that file: no Document row is created for it and the job never reaches
\* `completed`.
C8_IndexFailureFatal ==
  \A c \in DOMAIN calls :
    \A i \in DOMAIN calls[c].yields :
      calls[c].yields[i].index_failed
        => /\ Cardinality(FileDocs(calls[c].job)) < i
           /\ Status(calls[c].job) # <<"completed">>

\* C9: when no external call fails, a file of a supported type whose text has
\* no word (zero bytes, or whitespace only) does not end the upload: it gets
\* a Document row with the three artifact paths null, is counted in
\* document_count, and the job reaches `completed`.
C9_ZeroChunkFile ==
  \A c \in DOMAIN calls :
    faults = 0 =>
      \A i \in DOMAIN calls[c].batch :
        ( /\ calls[c].batch[i].content_type \in SupportedTypes
          /\ Empty(chunk_text(calls[c].batch[i].content, chunk_size)) )
          => /\ calls[c].failed_at # i
             /\ i \in DOMAIN calls[c].yields
                  => \E d \in FileDocs(calls[c].job) :
                       /\ documents[d].jsonl_blob_path = None
                       /\ documents[d].faiss_index_blob_path = None
                       /\ documents[d].chunks_blob_path = None

\* The job of an invocation that returned although none of its files yielded
\* a chunk.
ZeroChunkJob(j) ==
  \E c \in DOMAIN calls :
    /\ calls[c].job = j
    /\ calls[c].outcome = "returned"
    /\ \A i \in DOMAIN calls[c].yields : Empty(calls[c].yields[i].chunks)

\* C10: a job whose every file yielded zero chunks has an aggregated Document
\* whose three artifact paths are null, and chat_by_job (rag, raft) and
\* evaluate_model on it end with the not-found outcome for the missing
\* context, having called neither the embedding nor the chat provider.
C10_NoContext ==
  \A j \in DOMAIN jobs :
    ZeroChunkJob(j)
      => /\ \E d \in AggDocs(j) :
              /\ documents[d].jsonl_blob_path = None
              /\ documents[d].faiss_index_blob_path = None
              /\ documents[d].chunks_blob_path = None
         /\ (resp.job_id = j /\ resp.op \in {"chat", "evaluate"}
               /\ resp.mode \in {"rag", "raft"})
              => /\ resp.outcome = "404"
                 /\ resp.detail = "context"
                 /\ resp.embed_calls = 0
                 /\ resp.chat_calls = 0

\* chat_by_job in raft mode has answered for a job of two files none of
\* which yielded a chunk.
C10_Witness ==
  \E j \in DOMAIN jobs :
    /\ ZeroChunkJob(j)
    /\ jobs[j].file_count = 2
    /\ resp.job_id = j /\ resp.op = "chat" /\ resp.mode = "raft"


\* The generator has returned, and whether every provider call it made
\* failed.
Generated == generator.pc = "done"
EveryCallFailed == generator.attempts = generator.llm_calls

\* A line is a JSON object with the three turns system, user, assistant.
ThreeTurnLine(line) ==
  LET v == json_loads(line)
  IN  /\ v.kind = "object"
      /\ Len(v.messages) = 3
      /\ v.messages[1].role = "system"
      /\ v.messages[2].role = "user"
      /\ v.messages[3].role = "assistant"

\* C11: when every provider call failed or answered malformed output,
\* generate_synthetic_jsonl returns exactly min_examples = 10 lines (so at
\* least 10), each a valid JSON object with a three-turn messages array; the
\* invocation ends by returning a text, never otherwise.
C11_FallbackLines ==
  /\ Generated => generator.result # None /\ generator.origin \in {"llm", "fallback"}
  /\ (Generated /\ EveryCallFailed)
       => /\ generator.origin = "fallback"
          /\ LET lines == SplitLines(generator.result)
             IN  /\ Len(lines) = min_examples
                 /\ Len(lines) >= MinLines
                 /\ \A i \in 1..Len(lines) : ThreeTurnLine(lines[i])

\* Three malformed answers, then the fallback for an input text of two lines.
C11_Witness ==
  /\ Generated /\ EveryCallFailed
  /\ generator.llm_calls = max_attempts_default
  /\ generator.raw # None
  /\ "\n" \in { InputText(generator.chunks)[i] : i \in 1..Len(InputText(generator.chunks)) }

\* C12: generate_synthetic_jsonl calls the provider once per attempt and at
\* most max_attempts times: while it runs every call so far has failed and
\* fewer than max_attempts were made; it returns a provider-derived result
\* right after the first call that did not fail; it returns the fallback
\* right after exactly max_attempts failed calls.
C12_BoundedAttempts ==
  /\ generator.llm_calls <= generator.max_attempts
  /\ generator.pc = "running"
       => /\ generator.llm_calls = generator.attempts
          /\ generator.attempts < generator.max_attempts
  /\ (Generated /\ generator.origin = "llm")
       => generator.llm_calls = generator.attempts + 1
  /\ (Generated /\ generator.origin = "fallback")
       => /\ generator.attempts = generator.max_attempts
          /\ generator.llm_calls = generator.max_attempts

\* A valid answer at the second of three allowed attempts.
C12_Witness ==
  /\ Generated /\ generator.origin = "llm"
  /\ generator.max_attempts = 3
  /\ generator.llm_calls = 2

\* The lines of a response once a leading and a trailing fence line and the
\* blank lines are taken away.
FencelessLines(raw) ==
  LET lines == SplitLines(raw)
      body == IF lines # <<>> /\ HasPrefix(lines[1], Fence) THEN Tail(lines) ELSE lines
      core == IF body # <<>> /\ Strip(body[Len(body)]) = Fence
              THEN SubSeq(body, 1, Len(body) - 1) ELSE body
  IN  SelectSeq(core, LAMBDA line : Strip(line) # <<>>)

\* At least 10 such lines, all of which parse as JSON.
Acceptable(raw) ==
  /\ Len(FencelessLines(raw)) >= 10
  /\ \A i \in 1..Len(FencelessLines(raw)) : json_loads(FencelessLines(raw)[i]) # Invalid

\* C13: a provider-derived result is returned only for a response that,
\* without its surrounding fences and blank lines, has at least 10 lines all
\* of which parse as JSON, and it is those lines, all of them, re-serialised;
\* a response that falls short is not returned and counts as a failed attempt.
C13_OnlyValidReturned ==
  /\ (Generated /\ generator.origin = "llm")
       => /\ Acceptable(generator.raw)
          /\ SplitLines(generator.result)
               = [i \in 1..Len(FencelessLines(generator.raw)) |->
                    json_dumps(json_loads(FencelessLines(generator.raw)[i]))]
  /\ (generator.llm_calls > 0 /\ generator.raw # None /\ ~Acceptable(generator.raw))
       => /\ generator.origin # "llm"
          /\ generator.attempts = generator.llm_calls

\* A fenced answer is returned after an earlier answer was turned down.
C13_Witness ==
  /\ Generated /\ generator.origin = "llm"
  /\ HasPrefix(generator.raw, Fence)
  /\ generator.attempts >= 1


\* The number of words of a text: the places where a character that is not
\* whitespace follows whitespace or starts the text.
WordStarts(text) ==
  { i \in 1..Len(text) :
      /\ text[i] \notin {" ", "\n", "\t"}
      /\ (i = 1 \/ text[i - 1] \in {" ", "\n", "\t"}) }
WordCount(text) == Cardinality(WordStarts(text))

\* The words of a text, in order: each runs from its start to the character
\* before the next whitespace.
WordsOf(text) ==
  LET Start(k) == CHOOSE i \in WordStarts(text) :
                    Cardinality({ j \in WordStarts(text) : j < i }) = k - 1
      End(k) == CHOOSE e \in Start(k)..Len(text) :
                  /\ \A j \in Start(k)..e : text[j] \notin {" ", "\n", "\t"}
                  /\ (e = Len(text) \/ text[e + 1] \in {" ", "\n", "\t"})
  IN  [k \in 1..WordCount(text) |-> SubSeq(text, Start(k), End(k))]

\* C14: for a text of w words and n > 0, chunk_text returns ceil(w/n) chunks;
\* every chunk but the last has exactly n words, the last has between 1 and
\* n; a text without a word (empty, or whitespace only) gives the empty list.
C14_ChunkSizes ==
  fn.op = "chunk_text" =>
    LET w == WordCount(fn.text)
        m == Len(fn.chunks)
    IN  /\ m = (w + fn.n - 1) \div fn.n
        /\ \A i \in 1..m :
             IF i < m THEN WordCount(fn.chunks[i]) = fn.n
             ELSE WordCount(fn.chunks[i]) \in 1..fn.n
        /\ w = 0 => fn.chunks = <<>>

\* Three words in chunks of two: a full chunk and a shorter last one.
C14_Witness ==
  /\ fn.op = "chunk_text"
  /\ fn.n = 2
  /\ Len(fn.chunks) = 2
  /\ WordCount(fn.chunks[2]) = 1

\* C15: the chunks joined with single blanks are the words of the text, in
\* order, joined with single blanks; chunking that joined text again with the
\* same n gives the same chunks.
C15_JoinRoundTrip ==
  fn.op = "chunk_text" =>
    LET joined == JoinWith(<<" ">>, fn.chunks)
    IN  /\ joined = JoinWith(<<" ">>, WordsOf(fn.text))
        /\ WordsOf(joined) = WordsOf(fn.text)
        /\ chunk_text(joined, fn.n) = fn.chunks

\* A text with a line break between words and a run of whitespace, in two
\* chunks.
C15_Witness ==
  /\ fn.op = "chunk_text"
  /\ Len(fn.chunks) >= 2
  /\ \E i \in 1..Len(fn.text) : fn.text[i] = "\n" /\ i > 1 /\ i < Len(fn.text)
  /\ JoinWith(<<" ">>, fn.chunks) # fn.text

\* C16: create_faiss_index called with an empty list returns (None, None),
\* raises nothing, calls the embedding provider not at all and writes no
\* file.
C16_EmptyIndex ==
  (fn.op = "create_faiss_index" /\ Empty(fn.chunks))
    => /\ fn.faiss_index_path = None
       /\ fn.chunks_json = None
       /\ ~fn.raised
       /\ fn.embed_calls = 0
       /\ fn.written = {}

\* create_faiss_index has been called with an empty list where an earlier
\* call left an index file.
C16_Witness ==
  /\ fn.op = "create_faiss_index" /\ Empty(fn.chunks)
  /\ DOMAIN files # {}


\* C17: every retrieval returns at most min(5, n) chunk texts of a chunk
\* list of n entries, each at a position of that list: no label that reaches
\* the list is n or more, or below the first entry, whatever the size of the
\* index.
C17_ValidPositions ==
  /\ resp.op = "chat" =>
       /\ Cardinality(resp.retrieved) <= TopK
       /\ resp.retrieved # {} =>
            /\ Cardinality(resp.retrieved) <= resp.embed_calls - 1
            /\ resp.retrieved \subseteq 1..(resp.embed_calls - 1)
  /\ resp.op \in {"rag_query", "rag_query_by_job"} =>
       /\ resp.texts <= Min(TopK, resp.n)
       /\ resp.labels \subseteq 0..(resp.n - 1)


Uploaded(job_id) ==
  \E c \in DOMAIN calls : calls[c].job = job_id /\ calls[c].outcome = "returned"

BatchSize(job_id) ==
  LET c == CHOOSE d \in DOMAIN calls : calls[d].job = job_id
  IN  Len(calls[c].batch)

\* C19: a listing of the activity log of a job, ordered by timestamp, gives
\* the entries in the order they were appended; after a successful upload of
\* N files that is job_created, then file_upload_started and
\* document_created for each file, then the aggregated_* events with
\* aggregated_document_created the last of them, then job_completed.
C19_AppendOrder ==
  (resp.op = "get_job_logs" /\ resp.outcome = "ok") =>
    /\ \A a, b \in DOMAIN resp.ids : a < b => resp.ids[a] < resp.ids[b]
    /\ Uploaded(resp.job_id) =>
         LET ev == resp.events
             N == BatchSize(resp.job_id)
             last == Len(ev)
         IN  /\ last >= 2 * N + 3
             /\ ev[1] = "job_created"
             /\ \A i \in 1..N : /\ ev[2 * i] = "file_upload_started"
                                /\ ev[2 * i + 1] = "document_created"
             /\ \A k \in (2 * N + 2)..(last - 2) :
                  ev[k] \in {"aggregated_jsonl_created", "aggregated_faiss_created",
                            "aggregated_chunks_created"}
             /\ ev[last - 1] = "aggregated_document_created"
             /\ ev[last] = "job_completed"


\* C20: a fine-tune entry point called for an existing job without an
\* aggregated Document with a JSONL path raises the missing-artifact error
\* and leaves no partial state: the status of the job, the FineTunedModel
\* rows, the activity log and what the provider received are as before the
\* call.
C20_MissingArtifact ==
  (/\ resp.op \in {"queue_background_finetune", "finetune_job_with_model"}
   /\ resp.detail = "artifact"
   /\ resp.before.status # None)
    => /\ resp.outcome = "raised"
       /\ resp.after = resp.before


\* A fine-tune attempt whose combine-upload-submit sequence failed.
SequenceFailed ==
  /\ resp.op \in {"finetune_job_with_model", "run_background_finetune"}
  /\ resp.outcome = "raised"
  /\ resp.detail \in {"get_jsonl", "files_create", "jobs_create", "commit_model"}

\* C21: when a step of the combine-upload-submit sequence fails (download,
\* file upload, submission, FineTunedModel insert), in the immediate and in
\* the background path, the status of the job is persisted as `failed:
\* <error>` and the error is raised: the status is not left at `finetune
\* pending` and is not `finetune in progress`.
C21_FailureRecorded ==
  SequenceFailed =>
    /\ resp.after.status = <<"failed", resp.detail>>
    /\ resp.after.status # <<"finetune pending">>
    /\ resp.after.status # <<"finetune in progress">>


\* The combine-upload-submit sequence of the last request was entered and
\* has ended.
SequenceEnded ==
  /\ resp.op \in {"finetune_job_with_model", "run_background_finetune"}
  /\ resp.outcome \in {"ok", "raised"}
  /\ resp.detail \notin {"artifact", "job"}

\* C22: after the combine-upload-submit sequence has ended, on success and
\* on every failure, in the immediate and in the background path, the
\* temporary file combined_<job_id>.jsonl does not exist.
C22_CombinedRemoved ==
  SequenceEnded => CombinedPath(resp.job_id) \notin DOMAIN files

\* A background task whose upload of the combined file to the provider failed.
C22_Witness ==
  /\ SequenceEnded
  /\ resp.op = "run_background_finetune"
  /\ resp.detail = "files_create"


\* The event types of the entries a request appended to the activity log.
Appended(before, after) ==
  [ i \in 1 .. (Len(after.logs) - Len(before.logs)) |->
      after.logs[Len(before.logs) + i].event_type ]

\* The FineTunedModel rows a request added.
NewRows(before, after) ==
  SubSeq(after.models, Len(before.models) + 1, Len(after.models))

C29_ImmediateRow ==
  (resp.op = "finetune_job_with_model" /\ resp.outcome = "ok") =>
    LET pjobs == resp.after.provider.jobs
    IN  /\ Len(pjobs) = Len(resp.before.provider.jobs) + 1
        /\ pjobs[Len(pjobs)].model \in ModelNames
        /\ NewRows(resp.before, resp.after) =
             << [ job_id |-> resp.job_id,
                  openai_job_id |-> <<"ftjob", ToString(Len(pjobs))>>,
                  openai_model_id |-> None ] >>
        /\ resp.after.status = <<"finetune in progress">>
        /\ models = resp.after.models

\* An immediate fine-tune request that returned normally.
C29_Witness ==
  /\ resp.op = "finetune_job_with_model"
  /\ resp.outcome = "ok"
  /\ resp.before.models = <<>>
  /\ Len(models) = 1


\* The newest FineTunedModel row of a job: the one with the highest id.
Newest(job_id, m) ==
  LET rows == { i \in DOMAIN m : m[i].job_id = job_id }
  IN  CHOOSE i \in rows : \A j \in rows : j <= i

\* C23: check_finetune_status looks at the newest FineTunedModel row of the
\* job, the one with the highest id: after a second fine-tune was submitted
\* the provider is asked about, and the call reports, the second one.
C23_NewestRow ==
  (resp.op = "check_finetune_status" /\ resp.row # 0) =>
    resp.row = Newest(resp.job_id, resp.before.models)


\* C24: a check_finetune_status call that follows a check of the same job
\* that returned, with no change at the provider (or elsewhere) between the
\* two, appends nothing to the activity log and leaves Job.status and the
\* FineTunedModel rows as they are, whatever the status at the provider.
C24_SecondCheckSilent ==
  [][ (/\ resp.op = "check_finetune_status"
       /\ resp.outcome = "ok"
       /\ resp'.op = "check_finetune_status"
       /\ resp'.job_id = resp.job_id
       /\ provider' = provider)
      => (logs' = logs /\ jobs' = jobs /\ models' = models) ]_vars


\* A check_finetune_status call that asked the provider and returned.
Checked ==
  /\ resp.op = "check_finetune_status"
  /\ resp.outcome = "ok"
  /\ resp.detail # "not_run"

\* The status-transition entries a check_finetune_status call appended.
TransitionEntries ==
  { i \in (Len(resp.before.logs) + 1) .. Len(resp.after.logs) :
      /\ resp.after.logs[i].job_id = resp.job_id
      /\ resp.after.logs[i].event_type = StatusEvent(resp.reported)
      /\ resp.after.logs[i].message = TransitionMessage(resp.reported) }

\* C25, as stated: after check_finetune_status has returned for a job with
\* a submitted fine-tune, Job.status is the status the provider reported, and
\* a status-transition entry was appended in the call if and only if the
\* reported status differed from the stored one.
C25_TransitionLogged ==
  Checked =>
    /\ resp.after.status = <<resp.reported>>
    /\ jobs[resp.job_id].status = <<resp.reported>>
    /\ (TransitionEntries # {}) <=> (resp.before.status # <<resp.reported>>)

\* C25, amended: Job.status is the status the provider reported; a
\* status-transition entry was appended only if the reported status
\* differed from the stored one, and then one entry was appended unless the
\* write to the log failed.
C25_TransitionLoggedUnlessFailed ==
  Checked =>
    /\ resp.after.status = <<resp.reported>>
    /\ jobs[resp.job_id].status = <<resp.reported>>
    /\ Cardinality(TransitionEntries) =
         IF resp.before.status # <<resp.reported>> /\ "log_status" \notin resp.failed
         THEN 1 ELSE 0

\* A check that found the job finished at the provider and the finetune in
\* progress in the database.
C25_Witness ==
  /\ Checked
  /\ resp.before.status = <<"finetune in progress">>
  /\ resp.reported = "succeeded"
  /\ Cardinality(TransitionEntries) = 1


\* C26: a FineTunedModel row has a model id only if its job at the provider
\* has succeeded, and then it is the model the provider reported; rows are
\* created with the id of the provider job and no model id; and a status
\* check to which the provider reported anything but `succeeded` leaves the
\* model ids as they were.
C26_ModelIdOnSuccess ==
  /\ \A i \in DOMAIN models :
       /\ models[i].openai_job_id # None
       /\ models[i].openai_model_id # None =>
            LET status_resp == provider.jobs[Retrieve(models[i].openai_job_id)]
            IN  /\ status_resp.status = "succeeded"
                /\ models[i].openai_model_id = status_resp.fine_tuned_model
  /\ resp.op = "finetune_job_with_model" =>
       \A i \in DOMAIN NewRows(resp.before, resp.after) :
          NewRows(resp.before, resp.after)[i].openai_model_id = None
  /\ (resp.op = "check_finetune_status" /\ resp.reported # "succeeded") =>
       resp.after.models = resp.before.models

\* A status check has stored the model of a fine-tune that succeeded, next
\* to a row of a fine-tune that has not.
C26_Witness ==
  /\ resp.op = "check_finetune_status"
  /\ resp.reported = "succeeded"
  /\ \E i, j \in DOMAIN models :
       /\ models[i].openai_model_id # None
       /\ resp.before.models[i].openai_model_id = None
       /\ models[j].openai_model_id = None

\* C27: check_finetune_status for a job that exists and has no FineTunedModel
\* row, or a row without the id of a provider job, returns `not_run`, does
\* not call the provider and changes neither Job.status nor the activity
\* log.
C27_NotRunSilent ==
  /\ (/\ resp.op = "check_finetune_status"
      /\ resp.outcome = "ok"
      /\ \/ \A i \in DOMAIN resp.before.models :
              resp.before.models[i].job_id # resp.job_id
         \/ (resp.row # 0 /\ Falsy(resp.before.models[resp.row].openai_job_id))) =>
       /\ resp.reported = "not_run"
       /\ resp.retrieve_calls = 0
       /\ resp.after = resp.before
       /\ jobs[resp.job_id].status = resp.before.status
       /\ logs = resp.before.logs
       /\ models = resp.before.models
  /\ (resp.op = "check_finetune_status" /\ resp.reported = "not_run") =>
       \A i \in DOMAIN resp.before.models :
          resp.before.models[i].job_id # resp.job_id

\* A status check of a completed job that was never fine-tuned.
C27_Witness ==
  /\ resp.op = "check_finetune_status"
  /\ resp.reported = "not_run"
  /\ resp.before.status = <<"completed">>
  /\ resp.before.provider.jobs = <<>>


\* C30: creating the container tolerates races: when two
\* upload_to_blob_async calls run concurrently against a container that does
\* not exist and both find it missing, both return normally and both blobs
\* are stored.
C30_CreateRace ==
  \A p, q \in DOMAIN puts :
    (/\ p # q
     /\ puts[p].container = puts[q].container
     /\ puts[p].missing /\ puts[q].missing
     /\ puts[p].pc = "done" /\ puts[q].pc = "done") =>
      /\ puts[p].outcome = "ok" /\ puts[q].outcome = "ok"
      /\ PutPath(puts[p].blob_name, puts[p].container) \in DOMAIN blobs
      /\ PutPath(puts[q].blob_name, puts[q].container) \in DOMAIN blobs

\* C38: every Document row, per-file or aggregated, has a non-null
\* faiss_index_blob_path exactly when its chunks_blob_path is non-null, also
\* when one of the two artifact uploads failed.
C38_IndexWithChunks ==
  \A d \in DOMAIN documents :
    (documents[d].faiss_index_blob_path # None)
      <=> (documents[d].chunks_blob_path # None)

\* C40: once upload_files has ended, normally or by raising, every local
\* index file create_faiss_index wrote for it has been deleted, whichever
\* later step failed.
C40_IndexFilesDeleted ==
  (calls # <<>> /\ \A c \in DOMAIN calls : Ended(c)) =>
    \A ix \in IndexIds : IndexPath(ix) \notin DOMAIN files

\* C36: a per-file Document created by upload_files has a non-null
\* jsonl_blob_path exactly when its file yielded at least one chunk, and the
\* aggregated Document has one exactly when some file of the job did.
C36_JsonlWithChunks ==
  \A c \in DOMAIN calls :
    /\ \A d \in FileDocs(calls[c].job) :
         /\ d \in DOMAIN calls[c].yields
         /\ (documents[d].jsonl_blob_path # None)
              <=> ~Empty(calls[c].yields[d].chunks)
    /\ \A d \in AggDocs(calls[c].job) :
         (documents[d].jsonl_blob_path # None)
           <=> \E i \in DOMAIN calls[c].yields : ~Empty(calls[c].yields[i].chunks)

\* A job of a file without chunks and a file with chunks has its aggregated
\* Document.
C36_Witness ==
  \E c \in DOMAIN calls :
    /\ AggDocs(calls[c].job) # {}
    /\ \E d, e \in FileDocs(calls[c].job) :
         /\ documents[d].jsonl_blob_path = None
         /\ documents[e].jsonl_blob_path # None

\* The activity-log entries of a job with the given event type.
Entries(job_id, event_type) ==
  { i \in DOMAIN logs : logs[i].job_id = job_id /\ logs[i].event_type = event_type }

\* The locator of the original of file i of the batch of invocation c.
OriginalPath(c, i) ==
  PutPath(FolderName(calls[c].job, calls[c].job_name) \o <<calls[c].batch[i].filename>>,
          <<"documents">>)

\* Processing of file k raised and the upload stopped there: the files
\* before k have their Document rows and file k has none, no file after k
\* was stored, parsed or logged, and neither the aggregated Document nor a
\* job_completed entry exists.
StoppedAtFailure(c) ==
  LET call == calls[c]
      k == call.failed_at
  IN  /\ k \in DOMAIN call.batch
      /\ Cardinality(FileDocs(call.job)) = k - 1
      /\ Len(call.yields) = k - 1
      /\ Cardinality(Entries(call.job, "file_upload_started")) <= k
      /\ Cardinality(Entries(call.job, "document_created")) <= k - 1
      /\ \A i \in DOMAIN call.batch :
           (i > k /\ OriginalPath(c, i) \in DOMAIN (IF remote THEN blobs ELSE files)) =>
             \E j \in 1..k :
               /\ call.batch[j].filename = call.batch[i].filename
               /\ Stored(OriginalPath(c, i)) = call.batch[j].content
      /\ AggDocs(call.job) = {}
      /\ Entries(call.job, "job_completed") = {}
      /\ \A i \in Entries(call.job, "file_processing_failed") :
           logs[i].message = <<call.batch[k].filename, call.error>>

\* C35, as stated: when processing of file k raises, the transaction is
\* rolled back, one file_processing_failed entry naming the file and the
\* error is appended, and the upload stops there.
C35_StopsAtFailure ==
  \A c \in DOMAIN calls :
    (Ended(c) /\ calls[c].failed_at > 0) =>
      /\ calls[c].outcome = "http500"
      /\ StoppedAtFailure(c)
      /\ Cardinality(Entries(calls[c].job, "file_processing_failed")) = 1

\* C35, amended: when processing of file k raises, the transaction is rolled
\* back and the upload stops there; one file_processing_failed entry naming
\* the file and the error is appended unless the write to the activity log
\* failed, and then none is.
C35_StopsAtFailureLoggedUnlessFailed ==
  \A c \in DOMAIN calls :
    (Ended(c) /\ calls[c].failed_at > 0) =>
      /\ calls[c].outcome = "http500"
      /\ StoppedAtFailure(c)
      /\ logcall.event_type = "file_processing_failed"
      /\ Cardinality(Entries(calls[c].job, "file_processing_failed")) =
           IF logcall.failed THEN 0 ELSE 1

\* Processing of the first file of a batch of two raised and the failure
\* was logged.
C35_Witness ==
  \E c \in DOMAIN calls :
    /\ FileRaised(c)
    /\ calls[c].failed_at < Len(calls[c].batch)
    /\ Cardinality(Entries(calls[c].job, "file_processing_failed")) = 1

\* C37: after the combine-upload-submit sequence has run for a job, under
\* either backend, the job's aggregated JSONL artifact is still stored with
\* the content upload_files gave it and can be downloaded again.
C37_ArtifactKept ==
  (/\ resp.op \in {"finetune_job_with_model", "run_background_finetune"}
   /\ resp.outcome = "ok") =>
    \A c \in DOMAIN calls, d \in AggDocs(resp.job_id) :
      calls[c].job = resp.job_id =>
        LET path == documents[d].jsonl_blob_path
        IN  /\ ~GetRaises(Store(blobs, files), path, <<"artifacts">>)
            /\ Stored(path) = JoinWith(<<"\n">>, YieldedJsonl(c))

SubmittedRows(job_id) ==
  { i \in DOMAIN models :
      models[i].job_id = job_id /\ models[i].openai_job_id # None }

\* C39: in every reachable state a job whose status is `finetune in
\* progress` has at least one FineTunedModel row with a non-null external
\* job id, on the immediate and on the background path and under any
\* interleaving with status checks.
C39_InProgressHasRow ==
  \A j \in DOMAIN jobs :
    Status(j) = <<"finetune in progress">> => SubmittedRows(j) # {}

\* A job that is in progress again after a status check had moved it on.
C39_Witness ==
  \E j \in DOMAIN jobs :
    /\ Status(j) = <<"finetune in progress">>
    /\ Cardinality(SubmittedRows(j)) = 2
    /\ \E i \in DOMAIN logs :
         logs[i].job_id = j /\ logs[i].event_type = StatusEvent("running")

\* C33: a chat (rag mode), evaluation, job-logs, fine-tune status or
\* fine-tune-with-model request for a job id that has no Job row is answered
\* with success=false and data null.
C33_MissingJobRefused ==
  (/\ resp.op \in {"chat", "evaluate", "get_job_logs", "check_finetune_status",
                   "finetune_job_with_model"}
   /\ resp.op = "chat" => resp.mode = "rag"
   /\ resp.job_id \notin DOMAIN jobs) =>
    APIResponse(resp) = [success |-> FALSE, data |-> None]

\* The blob or the file behind a locator that upload_to_blob_async returns.
StoredAt(blob_path) ==
  blob_path \in DOMAIN (IF remote THEN blobs ELSE files)

\* C32: under either backend upload_to_blob_async of non-empty data, name
\* and container returns a locator from which download_from_blob_async with
\* that container gives a local file with the data written last, and
\* download_from_blob_async of a locator of that container at which nothing
\* was stored raises instead of returning a path.
C32_RoundTrip ==
  /\ fn.op = "upload_to_blob_async" =>
       LET st == Store(blobs, files)
       IN  /\ ~fn.raised
           /\ ~GetRaises(st, fn.returned, fn.container)
           /\ Get(st, fn.returned, fn.container)
                .files[GetPath(fn.returned, fn.container)] = fn.data
  /\ (/\ fn.op = "download_from_blob_async"
      /\ \E n \in StoreNames : fn.blob_path = PutPath(n, fn.container)
      /\ ~StoredAt(fn.blob_path)) =>
       fn.raised /\ fn.local_file_path = None

\* What the object store holds at a locator.
StoredData(blob_path) == (IF remote THEN blobs ELSE files)[blob_path]

\* The Document rows of a job, in insertion order.
DocumentsOf(job_id) ==
  SelectSeq(documents, LAMBDA d : d.job_id = job_id)

\* The Document rows a one-file job leaves when it runs alone.
SoloDocuments(job_id, job_name, file) ==
  LET Name(kind, aggregated) ==
        PutPath(ArtifactName(job_id, job_name, kind, aggregated, file.filename),
                <<"artifacts">>)
  IN  << DocumentRow(job_id,
           PutPath(OriginalName(job_id, job_name, file.filename), <<"documents">>),
           file.content_type,
           Name("jsonl", FALSE), Name("faiss", FALSE), Name("chunks", FALSE), FALSE),
         AggregatedDocument(job_id,
           Name("jsonl", TRUE), Name("faiss", TRUE), Name("chunks", TRUE)) >>

\* The rows of the job and the blobs they name are those of the job run alone.
SameAsAlone(c) ==
  LET call == calls[c]
      file == call.batch[1]
      chunks == chunk_text(file.content, chunk_size)
      rows == DocumentsOf(call.job)
  IN  /\ rows = SoloDocuments(call.job, call.job_name, file)
      /\ StoredData(rows[1].blob_path) = file.content
      /\ \A k \in 1..2 :
           /\ StoredData(rows[k].jsonl_blob_path) = generate_synthetic_jsonl(chunks, "llm")
           /\ StoredData(rows[k].faiss_index_blob_path) = IndexBytes(chunks)
           /\ StoredData(rows[k].chunks_blob_path) = JsonDumps(chunks)

\* C31: two upload_files invocations for different jobs are independent:
\* while both run, no local scratch or index file written by one is written
\* by the other, and once an invocation has returned, the Documents and
\* artifacts of its job are those of the job run alone, also when both
\* upload a file of the same name.
C31_Independent ==
  /\ \A c \in DOMAIN calls : \A d \in DOMAIN calls :
       (c # d /\ ~Ended(c) /\ ~Ended(d)) => calls[c].wrote \cap calls[d].wrote = {}
  /\ \A c \in DOMAIN calls :
       (Ended(c) /\ calls[c].outcome = "returned") => SameAsAlone(c)

====
